---- MODULE Spec2Model ----
(***************************************************************************)
(* Settlement ledger of the bank reconciliation: the reconciliation_links  *)
(* table with its constraints, and the two PL/pgSQL functions              *)
(* reconcile_transaction_multi and unreconcile_transaction of              *)
(* supabase/migrations/20260110_multi_reconciliation.sql.                  *)
(*                                                                         *)
(* Spec      one caller at a time: each RPC runs as one database           *)
(*           transaction and either commits or is rolled back.             *)
(* SpecConc  two sessions run reconcile_transaction_multi statement by     *)
(*           statement, each in its own READ COMMITTED transaction (the    *)
(*           level PostgreSQL gives a function call that asks for none).   *)
(***************************************************************************)
EXTENDS Integers, Sequences, FiniteSets, Bags, TLC

\* ------------------------------------------------------------------ bounds
\* Largest number of ids one call lists (expense ids plus invoice ids).
MaxIds == 2

\* Largest number of calls the two concurrent sessions make between them.
MaxCalls == 3

\* ------------------------------------------------------------------ values
\* SQL NULL of a uuid column or variable.
NULL == "NULL"

\* A nullable number or a nullable array is <<>> (NULL) or <<v>>.
None == <<>>
Some(v) == <<v>>

\* Rows of bank_transactions, expenses and quotes that exist; the tables are
\* created elsewhere, the functions only read and update them.
TransactionIds == {"t1", "t2"}
ExpenseIds == {"e1", "e2"}
InvoiceIds == {"i1"}

\* Ids a caller can pass: the existing ones, one that resolves to no row, and
\* (inside the expense array) NULL.
TransactionArgs == TransactionIds \cup {"t9"}
ExpenseArgs == ExpenseIds \cup {"e9", NULL}
InvoiceArgs == InvoiceIds \cup {"i9"}

SeqsUpTo(S, n) == UNION {[1..k -> S] : k \in 0..n}

Elems(arr) == IF arr = None THEN <<>> ELSE arr[1]

Range(seq) == {seq[k] : k \in 1..Len(seq)}

Abs(n) == IF n < 0 THEN 0 - n ELSE n

\* ------------------------------------------------------------------ state
VARIABLES
  bank_transactions,     \* id -> row of bank_transactions
  expenses,              \* id -> row of expenses
  quotes,                \* id -> row of quotes (the invoices)
  reconciliation_links,  \* bag of rows of reconciliation_links
  pc,                    \* the caller: "idle", or "done" with an outcome in hand
  request,               \* the RPC the caller made last
  result,                \* what the RPC returned: "ok" or the error raised
  pre,                   \* the tables as they were when the RPC began
  chain,                 \* the call this one was issued straight after
  sessions,              \* the database sessions running reconcileMulti
  quote,                 \* the document handed to calculateQuoteTotals
  options,               \* its options: enableVat, enableCis, defaultLabourRate
  displayOptions,        \* its displayOptions: showVat, showCis
  totals,                \* the QuoteTotals it returned
  partPayment,           \* the arguments of calculatePartPayment and its result
  store,                 \* what the three getAll() services return
  page,                  \* the state of ReconciliationPage
  tasks,                 \* its asynchronous calls in flight, oldest first
  settings,              \* the settings useData() returns
  feature,               \* the feature useFeatureAccess is asked about
  access,                \* what useFeatureAccess returned
  subscription,          \* what useSubscription returned
  navigation,            \* the state of the application and useHistoryNavigation
  history                \* window.history

vars == <<bank_transactions, expenses, quotes, reconciliation_links,
          pc, request, result, pre, chain, sessions,
          quote, options, displayOptions, totals, partPayment, store, page,
          tasks, settings, feature, access, subscription, navigation, history>>

\* The variables of the totals calculator and of the reconciliation page,
\* which the database functions and their callers never touch.
Calculator == <<quote, options, displayOptions, totals, partPayment>>

Matcher == <<store, page, tasks>>

Hooks == <<settings, feature, access, subscription, navigation, history>>

\* The four tables as one value.
DB == [bank_transactions |-> bank_transactions,
       expenses |-> expenses,
       quotes |-> quotes,
       links |-> reconciliation_links]

NoRequest == [op |-> "none", transaction_id |-> NULL,
              expense_ids |-> None, invoice_ids |-> None]

NoDB == [bank_transactions |-> <<>>, expenses |-> <<>>, quotes |-> <<>>,
         links |-> EmptyBag]

NoChain == [request |-> NoRequest, result |-> "none", pre |-> NoDB]

\* The calculator before it is handed a document, and the page before it is
\* mounted.
NoQuote ==
  [sections |-> None, labourRate |-> None, markupPercent |-> None,
   discountType |-> "undefined", discountValue |-> None,
   taxPercent |-> None, cisPercent |-> None]

NoOptions == [enableVat |-> FALSE, enableCis |-> FALSE, defaultLabourRate |-> 0]

NoDisplayOptions == [showVat |-> FALSE, showCis |-> FALSE]

NoTotals == None

NoPartPayment ==
  [enabled |-> None, type |-> "undefined", value |-> None, amount |-> None]

NoStore == [transactions |-> <<>>, expenses |-> <<>>, quotes |-> <<>>]

NoPage ==
  [transactions |-> <<>>, expenses |-> <<>>, invoices |-> <<>>,
   suggestions |-> <<>>, loading |-> TRUE, effect |-> "due",
   processing |-> None]

NoTasks == <<>>

NoSettings ==
  [subscriptionTier |-> None, subscriptionStatus |-> None, trialEnd |-> None,
   subscriptionEnd |-> None, subscriptionPeriodEnd |-> None]

\* cause is what set the state last (the mount, the user, a popstate) and
\* before the lastPushedState at the time of the user's last navigation.
NoNavigation ==
  [activeTab |-> "home", activeProjectId |-> None, viewingQuoteId |-> None,
   isHandlingPopState |-> FALSE, lastPushedState |-> None,
   effect |-> "done", cause |-> "none", before |-> None]

NoHistory == [entries |-> <<>>, index |-> 0, call |-> "none"]

\* The hooks are mounted nowhere.
NoHooks ==
  /\ settings = NoSettings
  /\ feature = "invoices"
  /\ access = None
  /\ subscription = None
  /\ navigation = NoNavigation
  /\ history = NoHistory

\* ------------------------------------------------------------------ tables
InitTransactions ==
  [t \in TransactionIds |->
     [user_id |-> "u1",
      amount |-> IF t = "t1" THEN 0 - 12000 ELSE 50000,
      is_reconciled |-> FALSE,
      reconciled_expense_id |-> NULL,
      reconciled_invoice_id |-> NULL]]

InitExpenses ==
  [e \in ExpenseIds |->
     [amount |-> IF e = "e1" THEN 10000 ELSE 2000,
      is_reconciled |-> FALSE,
      reconciled_transaction_id |-> NULL]]

InitQuotes ==
  [i \in InvoiceIds |-> [total |-> 50000, status |-> "paid"]]

\* The rows of a bag of links, and those of one transaction.
Rows(links) == BagToSet(links)

LinksOf(links, tx) == {r \in Rows(links) : r.bank_transaction_id = tx}

\* ------------------------------------------------- reconciliation_links
\* A row of reconciliation_links (id and created_at are generated and never
\* read by the functions).
LinkRow(user, tx, expense, invoice, amount) ==
  [user_id |-> user, bank_transaction_id |-> tx, expense_id |-> expense,
   invoice_id |-> invoice, amount_matched |-> amount]

\* CONSTRAINT expense_or_invoice CHECK (...).
expense_or_invoice(row) ==
  \/ row.expense_id # NULL /\ row.invoice_id = NULL
  \/ row.expense_id = NULL /\ row.invoice_id # NULL

\* Mutant of UniqueLink: the table without UNIQUE(bank_transaction_id,
\* expense_id).
UniqueLinkInvoiceOnly(links, row) ==
  \A r \in Rows(links) :
    r.bank_transaction_id = row.bank_transaction_id =>
      ~(row.invoice_id # NULL /\ r.invoice_id = row.invoice_id)

\* UNIQUE(bank_transaction_id, expense_id) and
\* UNIQUE(bank_transaction_id, invoice_id): a NULL never equals a NULL.
UniqueLink(links, row) ==
  \A r \in Rows(links) :
    r.bank_transaction_id = row.bank_transaction_id =>
      /\ ~(row.expense_id # NULL /\ r.expense_id = row.expense_id)
      /\ ~(row.invoice_id # NULL /\ r.invoice_id = row.invoice_id)

\* REFERENCES bank_transactions(id), expenses(id), quotes(id).
ReferencesExist(db, row) ==
  /\ row.bank_transaction_id \in DOMAIN db.bank_transactions
  /\ row.expense_id # NULL => row.expense_id \in DOMAIN db.expenses
  /\ row.invoice_id # NULL => row.invoice_id \in DOMAIN db.quotes

\* What INSERT INTO reconciliation_links raises for this row, "none" when the
\* row is accepted: the CHECK is evaluated on the new row, the unique indexes
\* when it is stored, the foreign keys at the end of the statement.
InsertError(db, row) ==
  IF ~expense_or_invoice(row) THEN "check_violation"
  ELSE IF ~UniqueLink(db.links, row) THEN "unique_violation"
  ELSE IF ~ReferencesExist(db, row) THEN "foreign_key_violation"
  ELSE "none"

\* The state of a running function: the error raised so far ("none" while it
\* runs on) and the tables as the function sees them.
Running(db) == [error |-> "none", db |-> db]

Raise(st, error) == [st EXCEPT !.error = error]

\* INSERT INTO reconciliation_links (...) VALUES (...).
InsertLink(st, row) ==
  LET e == InsertError(st.db, row) IN
  IF e # "none" THEN Raise(st, e)
  ELSE [st EXCEPT !.db.links = @ (+) SetToBag({row})]

\* Mutant of DeleteLinks: the DELETE left out.
DeleteLinksSkipped(links, tx) == links

\* DELETE FROM reconciliation_links WHERE bank_transaction_id = tx.
DeleteLinks(links, tx) ==
  [r \in {x \in Rows(links) : x.bank_transaction_id # tx} |-> links[r]]

\* SELECT amount INTO v FROM expenses WHERE id = ...: NULL when no row.
ExpenseAmount(db, id) ==
  IF id \in DOMAIN db.expenses THEN Some(db.expenses[id].amount) ELSE None

\* SELECT total INTO v FROM quotes WHERE id = ...: NULL when no row.
InvoiceAmount(db, id) ==
  IF id \in DOMAIN db.quotes THEN Some(db.quotes[id].total) ELSE None

\* UPDATE expenses SET is_reconciled = true, reconciled_transaction_id = tx
\* WHERE id = ...: no row, no change.
MarkExpense(exps, id, tx) ==
  [e \in DOMAIN exps |->
     IF e = id
       THEN [exps[e] EXCEPT !.is_reconciled = TRUE,
                            !.reconciled_transaction_id = tx]
       ELSE exps[e]]

\* UPDATE bank_transactions SET is_reconciled = true WHERE id = tx.
MarkTransaction(txs, tx) ==
  [t \in DOMAIN txs |->
     IF t = tx THEN [txs[t] EXCEPT !.is_reconciled = TRUE] ELSE txs[t]]

\* Mutant of AddExpenseLink: an expense that is already marked reconciled is
\* passed over.
AddExpenseLinkIfUnreconciled(st, user, tx, id) ==
  IF id \in DOMAIN st.db.expenses /\ st.db.expenses[id].is_reconciled THEN st
  ELSE LET ins == InsertLink(st, LinkRow(user, tx, id, NULL, ExpenseAmount(st.db, id))) IN
       IF ins.error # "none" THEN ins
       ELSE [ins EXCEPT !.db.expenses = MarkExpense(@, id, tx)]

\* One pass of the FOREACH v_expense_id loop.
AddExpenseLink(st, user, tx, id) ==
  LET ins == InsertLink(st, LinkRow(user, tx, id, NULL, ExpenseAmount(st.db, id))) IN
  IF ins.error # "none" THEN ins
  ELSE [ins EXCEPT !.db.expenses = MarkExpense(@, id, tx)]

\* One pass of the FOREACH v_invoice_id loop.
AddInvoiceLink(st, user, tx, id) ==
  InsertLink(st, LinkRow(user, tx, NULL, id, InvoiceAmount(st.db, id)))

RECURSIVE AddExpenseLinks(_, _, _, _, _)
AddExpenseLinks(st, user, tx, ids, k) ==
  IF st.error # "none" \/ k > Len(ids) THEN st
  ELSE AddExpenseLinks(AddExpenseLink(st, user, tx, ids[k]), user, tx, ids, k + 1)

RECURSIVE AddInvoiceLinks(_, _, _, _, _)
AddInvoiceLinks(st, user, tx, ids, k) ==
  IF st.error # "none" \/ k > Len(ids) THEN st
  ELSE AddInvoiceLinks(AddInvoiceLink(st, user, tx, ids[k]), user, tx, ids, k + 1)

\* Mutant of TransactionUser: the user taken from the session, not from the
\* row of the transaction.
TransactionUserOfSession(db, tx) == "u1"

\* SELECT user_id INTO v_user_id FROM bank_transactions WHERE id = ...
TransactionUser(db, tx) ==
  IF tx \in DOMAIN db.bank_transactions
    THEN db.bank_transactions[tx].user_id ELSE NULL

\* The body of reconcile_transaction_multi, run on the tables db: the state it
\* ends in, with the error it raised if it did not reach its END.
reconcile_transaction_multi(db, p_transaction_id, p_expense_ids, p_invoice_ids) ==
  LET v_user_id == TransactionUser(db, p_transaction_id)
      cleared == [Running(db) EXCEPT
                    !.db.links = DeleteLinks(@, p_transaction_id)]
      withExpenses ==
        IF p_expense_ids # None
          THEN AddExpenseLinks(cleared, v_user_id, p_transaction_id,
                               Elems(p_expense_ids), 1)
          ELSE cleared
      withInvoices ==
        IF withExpenses.error = "none" /\ p_invoice_ids # None
          THEN AddInvoiceLinks(withExpenses, v_user_id, p_transaction_id,
                               Elems(p_invoice_ids), 1)
          ELSE withExpenses
  IN
  IF v_user_id = NULL THEN Raise(Running(db), "transaction_not_found")
  ELSE IF withInvoices.error # "none" THEN withInvoices
  ELSE [withInvoices EXCEPT
          !.db.bank_transactions = MarkTransaction(@, p_transaction_id)]

\* Mutant of UnmarkExpenses: the flag cleared, the back-reference kept.
UnmarkExpensesKeepReference(exps, tx) ==
  [e \in DOMAIN exps |->
     IF exps[e].reconciled_transaction_id = tx
       THEN [exps[e] EXCEPT !.is_reconciled = FALSE]
       ELSE exps[e]]

\* UPDATE expenses SET is_reconciled = false, reconciled_transaction_id = NULL
\* WHERE reconciled_transaction_id = tx.
UnmarkExpenses(exps, tx) ==
  [e \in DOMAIN exps |->
     IF exps[e].reconciled_transaction_id = tx
       THEN [exps[e] EXCEPT !.is_reconciled = FALSE,
                            !.reconciled_transaction_id = NULL]
       ELSE exps[e]]

\* UPDATE bank_transactions SET is_reconciled = false,
\* reconciled_expense_id = NULL, reconciled_invoice_id = NULL WHERE id = tx.
UnmarkTransaction(txs, tx) ==
  [t \in DOMAIN txs |->
     IF t = tx
       THEN [txs[t] EXCEPT !.is_reconciled = FALSE,
                           !.reconciled_expense_id = NULL,
                           !.reconciled_invoice_id = NULL]
       ELSE txs[t]]

\* The body of unreconcile_transaction: three statements, none of which
\* raises when it matches no row.
unreconcile_transaction(db, p_transaction_id) ==
  [error |-> "none",
   db |-> [db EXCEPT
             !.expenses = UnmarkExpenses(@, p_transaction_id),
             !.links = DeleteLinks(@, p_transaction_id),
             !.bank_transactions = UnmarkTransaction(@, p_transaction_id)]]

\* Mutant of Commit: the writes made before the error are kept.
CommitPartial(db, st) == st.db

\* A function call is one statement of one database transaction: when the
\* function raises, everything it wrote is rolled back.
Commit(db, st) == IF st.error = "none" THEN st.db ELSE db

\* ------------------------------------------------------------------ caller
\* The requests a caller can make: reconcileMulti with at most MaxIds ids in
\* its two arrays together, and unreconcile.
ReconcileRequests ==
  UNION {
    {[op |-> "reconcileMulti", transaction_id |-> t,
      expense_ids |-> Some(es), invoice_ids |-> Some(is)] :
       t \in TransactionArgs, is \in SeqsUpTo(InvoiceArgs, MaxIds - Len(es))}
    : es \in SeqsUpTo(ExpenseArgs, MaxIds)}

UnreconcileRequest(t) ==
  [op |-> "unreconcile", transaction_id |-> t,
   expense_ids |-> None, invoice_ids |-> None]

\* What the database does with a request on the tables db.
Run(db, req) ==
  IF req.op = "reconcileMulti"
    THEN reconcile_transaction_multi(db, req.transaction_id,
                                     req.expense_ids, req.invoice_ids)
    ELSE unreconcile_transaction(db, req.transaction_id)

\* ---------------------------------------------------------------- sessions
Sessions == {"A", "B"}

Other(s) == IF s = "A" THEN "B" ELSE "A"

\* A session: where it is in the function, the call it runs, the loop index,
\* what its transaction wrote and has not committed (rows deleted, rows
\* inserted, expenses and transaction updated), the error it ended with,
\* whether another call ran while this one did, and the calls it has made.
IdleSession ==
  [pc |-> "idle", req |-> NoRequest, k |-> 0, deleted |-> {},
   inserted |-> EmptyBag, marked |-> <<>>, tx_marked |-> FALSE,
   error |-> "none", overlap |-> "none", calls |-> 0]

Init ==
  /\ bank_transactions = InitTransactions
  /\ expenses = InitExpenses
  /\ quotes = InitQuotes
  /\ reconciliation_links = EmptyBag
  /\ pc = "idle"
  /\ request = NoRequest
  /\ result = "none"
  /\ pre = NoDB
  /\ chain = NoChain
  /\ sessions = [s \in Sessions |-> IdleSession]
  /\ quote = NoQuote
  /\ options = NoOptions
  /\ displayOptions = NoDisplayOptions
  /\ totals = NoTotals
  /\ partPayment = NoPartPayment
  /\ store = NoStore
  /\ page = NoPage
  /\ tasks = NoTasks
  /\ NoHooks

\* The RPC req, run by the database as one transaction: the function's
\* writes are committed, or rolled back when it raised; the caller gets the
\* outcome.
Perform(req) ==
  LET st == Run(DB, req)
      after == Commit(DB, st)
  IN /\ bank_transactions' = after.bank_transactions
     /\ expenses' = after.expenses
     /\ quotes' = after.quotes
     /\ reconciliation_links' = after.links
     /\ result' = IF st.error = "none" THEN "ok" ELSE st.error
     /\ request' = req
     /\ pre' = DB
     /\ pc' = "done"
     /\ UNCHANGED <<Hooks, sessions, Calculator, Matcher>>

\* reconcileMulti(transactionId, expenseIds, invoiceIds).
ReconcileMulti ==
  /\ pc = "idle"
  /\ \E req \in ReconcileRequests : Perform(req)
  /\ chain' = NoChain

\* unreconcile(transactionId).
Unreconcile ==
  /\ pc = "idle"
  /\ \E t \in TransactionArgs : Perform(UnreconcileRequest(t))
  /\ chain' = NoChain

\* The caller has seen the outcome and goes on to something else.
Return ==
  /\ pc = "done"
  /\ pc' = "idle"
  /\ request' = NoRequest
  /\ pre' = NoDB
  /\ chain' = NoChain
  /\ result' = "none"
  /\ UNCHANGED <<Hooks, bank_transactions, expenses, quotes, reconciliation_links,
                 sessions, Calculator, Matcher>>

\* The caller repeats the call it has just made, with the same arguments.
Retry ==
  /\ pc = "done"
  /\ chain = NoChain
  /\ chain' = [request |-> request, result |-> result, pre |-> pre]
  /\ Perform(request)

\* The caller follows a reconcileMulti straight away with unreconcile of the
\* same transaction.
Undo ==
  /\ pc = "done"
  /\ chain = NoChain
  /\ request.op = "reconcileMulti"
  /\ result = "ok"
  /\ chain' = [request |-> request, result |-> result, pre |-> pre]
  /\ Perform(UnreconcileRequest(request.transaction_id))

Next == ReconcileMulti \/ Unreconcile \/ Return \/ Retry \/ Undo

Spec == Init /\ [][Next]_vars

\* ------------------------------------------------- concurrent sessions
\* The calls the two sessions make: existing transactions, existing ids, no
\* id listed twice.
ConcurrentRequests ==
  {req \in ReconcileRequests :
     /\ req.transaction_id \in TransactionIds
     /\ Range(Elems(req.expense_ids)) \subseteq ExpenseIds
     /\ Range(Elems(req.invoice_ids)) \subseteq InvoiceIds
     /\ Cardinality(Range(Elems(req.expense_ids))) = Len(Elems(req.expense_ids))
     /\ Cardinality(Range(Elems(req.invoice_ids))) = Len(Elems(req.invoice_ids))}

InProgress(s) == sessions[s].pc \notin {"idle", "committed", "aborted"}

\* The tables as the next statement of session s sees them: what is
\* committed, with the session's own uncommitted writes applied.
SessionDB(s) ==
  LET me == sessions[s]
      tx == me.req.transaction_id
  IN [bank_transactions |->
        IF me.tx_marked THEN MarkTransaction(bank_transactions, tx)
        ELSE bank_transactions,
      expenses |->
        [e \in DOMAIN expenses |->
           IF e \in Range(me.marked) THEN MarkExpense(expenses, e, tx)[e]
           ELSE expenses[e]],
      quotes |-> quotes,
      links |->
        [r \in Rows(reconciliation_links) \ me.deleted |->
           reconciliation_links[r]] (+) me.inserted]

\* The statement after the DELETE, and after the last pass of a loop.
AfterDelete(req) ==
  IF req.expense_ids # None /\ Elems(req.expense_ids) # <<>> THEN "insert_expense"
  ELSE IF req.invoice_ids # None /\ Elems(req.invoice_ids) # <<>> THEN "insert_invoice"
  ELSE "mark"

AfterExpenses(req) ==
  IF req.invoice_ids # None /\ Elems(req.invoice_ids) # <<>> THEN "insert_invoice"
  ELSE "mark"

\* The row the session's INSERT is about to store.
PendingRow(s) ==
  LET me == sessions[s]
      tx == me.req.transaction_id
      user == TransactionUser(DB, tx)
  IN IF me.pc = "insert_expense"
       THEN LET id == Elems(me.req.expense_ids)[me.k]
            IN LinkRow(user, tx, id, NULL, ExpenseAmount(DB, id))
       ELSE LET id == Elems(me.req.invoice_ids)[me.k]
            IN LinkRow(user, tx, NULL, id, InvoiceAmount(DB, id))

SameKey(r, row) ==
  /\ r.bank_transaction_id = row.bank_transaction_id
  /\ \/ row.expense_id # NULL /\ r.expense_id = row.expense_id
     \/ row.invoice_id # NULL /\ r.invoice_id = row.invoice_id

\* The next statement of session s has to wait for the other session's
\* transaction to end: it would delete a row the other has deleted, store a
\* key the other has stored or deleted, or update a row the other updated.
Waiting(s) ==
  LET me == sessions[s]
      other == sessions[Other(s)]
      tx == me.req.transaction_id
  IN /\ InProgress(s)
     /\ InProgress(Other(s))
     /\ CASE me.pc = "delete" ->
               \E r \in other.deleted : r.bank_transaction_id = tx
          [] me.pc \in {"insert_expense", "insert_invoice"} ->
               \/ \E r \in Rows(other.inserted) : SameKey(r, PendingRow(s))
               \/ \E r \in other.deleted \ me.deleted : SameKey(r, PendingRow(s))
          [] me.pc = "update_expense" ->
               Elems(me.req.expense_ids)[me.k] \in Range(other.marked)
          [] me.pc = "mark" ->
               other.tx_marked /\ other.req.transaction_id = tx
          [] OTHER -> FALSE

Ended(me, pc_, error) ==
  [me EXCEPT !.pc = pc_, !.error = error, !.k = 0, !.deleted = {},
             !.inserted = EmptyBag, !.marked = <<>>, !.tx_marked = FALSE]

Tables == <<bank_transactions, expenses, quotes, reconciliation_links>>

Caller == <<pc, request, result, pre, chain>>

\* A session calls reconcile_transaction_multi.
Begin(s) ==
  /\ sessions[s].pc = "idle"
  /\ sessions[s].calls + sessions[Other(s)].calls < MaxCalls
  /\ \E req \in ConcurrentRequests :
       sessions' =
         [x \in Sessions |->
            IF x = s
              THEN [IdleSession EXCEPT
                      !.pc = "select", !.req = req,
                      !.calls = sessions[s].calls + 1,
                      !.overlap = IF InProgress(Other(s)) THEN "one" ELSE "none"]
            ELSE IF InProgress(x)
              THEN [sessions[x] EXCEPT
                      !.overlap = IF sessions[x].overlap = "none" THEN "one"
                                  ELSE "many"]
            ELSE sessions[x]]
  /\ UNCHANGED <<Hooks, Tables, Caller, Calculator, Matcher>>

\* SELECT user_id INTO v_user_id ...; IF v_user_id IS NULL THEN RAISE.
SelectUser(s) ==
  /\ sessions[s].pc = "select"
  /\ LET me == sessions[s] IN
     sessions' =
       [sessions EXCEPT ![s] =
          IF TransactionUser(DB, me.req.transaction_id) = NULL
            THEN Ended(me, "aborted", "transaction_not_found")
            ELSE [me EXCEPT !.pc = "delete"]]
  /\ UNCHANGED <<Hooks, Tables, Caller, Calculator, Matcher>>

\* DELETE FROM reconciliation_links WHERE bank_transaction_id = ...: the rows
\* committed when the statement runs.
DeleteStatement(s) ==
  /\ sessions[s].pc = "delete"
  /\ ~Waiting(s)
  /\ LET me == sessions[s] IN
     sessions' =
       [sessions EXCEPT ![s] =
          [me EXCEPT
             !.deleted = LinksOf(reconciliation_links, me.req.transaction_id),
             !.pc = AfterDelete(me.req), !.k = 1]]
  /\ UNCHANGED <<Hooks, Tables, Caller, Calculator, Matcher>>

\* SELECT amount ...; INSERT INTO reconciliation_links ... of the expense loop.
InsertExpense(s) ==
  /\ sessions[s].pc = "insert_expense"
  /\ ~Waiting(s)
  /\ LET me == sessions[s]
         st == InsertLink(Running(SessionDB(s)), PendingRow(s))
     IN sessions' =
          [sessions EXCEPT ![s] =
             IF st.error # "none" THEN Ended(me, "aborted", st.error)
             ELSE [me EXCEPT !.inserted = me.inserted (+) SetToBag({PendingRow(s)}),
                             !.pc = "update_expense"]]
  /\ UNCHANGED <<Hooks, Tables, Caller, Calculator, Matcher>>

\* UPDATE expenses SET is_reconciled = true, ... of the expense loop.
UpdateExpense(s) ==
  /\ sessions[s].pc = "update_expense"
  /\ ~Waiting(s)
  /\ LET me == sessions[s]
         es == Elems(me.req.expense_ids)
     IN sessions' =
          [sessions EXCEPT ![s] =
             [me EXCEPT !.marked = Append(me.marked, es[me.k]),
                        !.pc = IF me.k < Len(es) THEN "insert_expense"
                               ELSE AfterExpenses(me.req),
                        !.k = IF me.k < Len(es) THEN me.k + 1 ELSE 1]]
  /\ UNCHANGED <<Hooks, Tables, Caller, Calculator, Matcher>>

\* SELECT total ...; INSERT INTO reconciliation_links ... of the invoice loop.
InsertInvoice(s) ==
  /\ sessions[s].pc = "insert_invoice"
  /\ ~Waiting(s)
  /\ LET me == sessions[s]
         is == Elems(me.req.invoice_ids)
         st == InsertLink(Running(SessionDB(s)), PendingRow(s))
     IN sessions' =
          [sessions EXCEPT ![s] =
             IF st.error # "none" THEN Ended(me, "aborted", st.error)
             ELSE [me EXCEPT !.inserted = me.inserted (+) SetToBag({PendingRow(s)}),
                             !.pc = IF me.k < Len(is) THEN "insert_invoice"
                                    ELSE "mark",
                             !.k = IF me.k < Len(is) THEN me.k + 1 ELSE 1]]
  /\ UNCHANGED <<Hooks, Tables, Caller, Calculator, Matcher>>

\* UPDATE bank_transactions SET is_reconciled = true WHERE id = ...
MarkStatement(s) ==
  /\ sessions[s].pc = "mark"
  /\ ~Waiting(s)
  /\ sessions' = [sessions EXCEPT ![s].tx_marked = TRUE, ![s].pc = "commit"]
  /\ UNCHANGED <<Hooks, Tables, Caller, Calculator, Matcher>>

\* The function returned: the session's transaction commits.
CommitSession(s) ==
  /\ sessions[s].pc = "commit"
  /\ LET after == SessionDB(s) IN
     /\ bank_transactions' = after.bank_transactions
     /\ expenses' = after.expenses
     /\ quotes' = after.quotes
     /\ reconciliation_links' = after.links
  /\ sessions' = [sessions EXCEPT ![s] = Ended(sessions[s], "committed", "none")]
  /\ UNCHANGED <<Hooks, Caller, Calculator, Matcher>>

\* Both sessions wait for each other: the database ends one of them.
DeadlockDetected(s) ==
  /\ Waiting(s)
  /\ Waiting(Other(s))
  /\ sessions' = [sessions EXCEPT ![s] = Ended(sessions[s], "aborted", "deadlock_detected")]
  /\ UNCHANGED <<Hooks, Tables, Caller, Calculator, Matcher>>

\* The caller of the session has its answer.
Finish(s) ==
  /\ sessions[s].pc \in {"committed", "aborted"}
  /\ sessions' = [sessions EXCEPT ![s] =
                    [IdleSession EXCEPT !.calls = sessions[s].calls]]
  /\ UNCHANGED <<Hooks, Tables, Caller, Calculator, Matcher>>

NextConc ==
  \E s \in Sessions :
    \/ Begin(s)
    \/ SelectUser(s)
    \/ DeleteStatement(s)
    \/ InsertExpense(s)
    \/ UpdateExpense(s)
    \/ InsertInvoice(s)
    \/ MarkStatement(s)
    \/ CommitSession(s)
    \/ DeadlockDetected(s)
    \/ Finish(s)

SpecConc == Init /\ [][NextConc]_vars

\* ------------------------------------------------------------------ numbers
\* A JavaScript number is kept as an exact fraction n/d in lowest terms with
\* d > 0; the rounding of IEEE doubles is not modelled.
RECURSIVE GCD(_, _)
GCD(a, b) == IF b = 0 THEN a ELSE GCD(b, a % b)

Frac(n, d) ==
  LET g == GCD(Abs(n), Abs(d))
      s == IF d < 0 THEN 0 - 1 ELSE 1
  IN [n |-> (s * n) \div g, d |-> (s * d) \div g]

Num(i) == [n |-> i, d |-> 1]

Plus(x, y) == Frac(x.n * y.d + y.n * x.d, x.d * y.d)

Minus(x, y) == Frac(x.n * y.d - y.n * x.d, x.d * y.d)

Times(x, y) == Frac(x.n * y.n, x.d * y.d)

\* x / 100.
Over100(x) == Frac(x.n, x.d * 100)

\* An optional property is None (undefined) or Some(v).
\* (v || 0) of an optional number: undefined and 0 both give 0.
OrZero(v) == IF v = None THEN 0 ELSE v[1]

\* !v of an optional number: undefined and 0 are both falsy.
Falsy(v) == v = None \/ v = Some(0)

\* --------------------------------------------------------- quoteCalculations
\* Mutant of effectiveRate: the fallback taken with || in place of ??, so
\* that a rate of 0 falls through as if it were absent.
effectiveRateOr(section, quoteLabourRate, defaultLabourRate) ==
  IF ~Falsy(section.labourRate) THEN section.labourRate[1]
  ELSE IF ~Falsy(quoteLabourRate) THEN quoteLabourRate[1]
  ELSE defaultLabourRate

\* section.labourRate ?? quoteLabourRate ?? defaultLabourRate.
effectiveRate(section, quoteLabourRate, defaultLabourRate) ==
  IF section.labourRate # None THEN section.labourRate[1]
  ELSE IF quoteLabourRate # None THEN quoteLabourRate[1]
  ELSE defaultLabourRate

\* labourItems.reduce((sum, item) => sum + item.hours * (item.rate ?? rate), 0)
RECURSIVE SumLabourItems(_, _, _)
SumLabourItems(labourItems, rate, k) ==
  IF k > Len(labourItems) THEN 0
  ELSE labourItems[k].hours *
         (IF labourItems[k].rate # None THEN labourItems[k].rate[1] ELSE rate)
       + SumLabourItems(labourItems, rate, k + 1)

calculateSectionLabour(section, quoteLabourRate, defaultLabourRate) ==
  LET rate == effectiveRate(section, quoteLabourRate, defaultLabourRate) IN
  IF section.labourItems # None /\ Len(section.labourItems[1]) > 0
    THEN Num(SumLabourItems(section.labourItems[1], rate, 1))
  ELSE IF section.labourCost # None THEN Num(section.labourCost[1])
  ELSE Num(OrZero(section.labourHours) * rate)

\* (section.items || []).filter(item => !item.isHeading)
\*   .reduce((sum, item) => sum + (item.totalPrice || 0), 0)
RECURSIVE SumItems(_, _)
SumItems(items, k) ==
  IF k > Len(items) THEN 0
  ELSE (IF items[k].isHeading THEN 0 ELSE OrZero(items[k].totalPrice))
       + SumItems(items, k + 1)

calculateSectionMaterials(section) == Num(SumItems(Elems(section.items), 1))

\* Mutant of calculateSectionPrice: the override tested for truth, so that an
\* override of 0 is not honoured.
calculateSectionPriceTruthy(section, materialsTotal, labourTotal) ==
  IF ~Falsy(section.subsectionPrice)
    THEN Num(section.subsectionPrice[1])
    ELSE Plus(materialsTotal, labourTotal)

calculateSectionPrice(section, materialsTotal, labourTotal) ==
  IF section.subsectionPrice # None
    THEN Num(section.subsectionPrice[1])
    ELSE Plus(materialsTotal, labourTotal)

\* Mutant of calculateDiscount: every type but 'fixed' read as a percentage.
calculateDiscountUnlessFixed(subtotal, discountType, discountValue) ==
  IF Falsy(discountValue) THEN Num(0)
  ELSE IF discountType # "fixed"
    THEN Times(subtotal, Over100(Num(discountValue[1])))
  ELSE Num(discountValue[1])

calculateDiscount(subtotal, discountType, discountValue) ==
  IF Falsy(discountValue) THEN Num(0)
  ELSE IF discountType = "percentage"
    THEN Times(subtotal, Over100(Num(discountValue[1])))
  ELSE Num(discountValue[1])

\* Mutant of calculateVat: the display toggle not consulted.
calculateVatWhenEnabled(afterDiscount, taxPercent, opts) ==
  IF ~opts.enableVat THEN Num(0)
  ELSE Times(afterDiscount, Over100(Num(OrZero(taxPercent))))

calculateVat(afterDiscount, taxPercent, opts) ==
  IF ~opts.enableVat \/ ~opts.showVat THEN Num(0)
  ELSE Times(afterDiscount, Over100(Num(OrZero(taxPercent))))

calculateCis(labourTotal, cisPercent, opts) ==
  IF ~opts.enableCis \/ ~opts.showCis THEN Num(0)
  ELSE Times(labourTotal, Over100(Num(OrZero(cisPercent))))

calculatePartPayment(grandTotal, enabled, type, value) ==
  IF enabled # Some(TRUE) \/ Falsy(value) THEN Num(0)
  ELSE IF type = "percentage" THEN Times(grandTotal, Over100(Num(value[1])))
  ELSE Num(value[1])

\* Mutant of markupMultiplier: the markup left out.
markupMultiplierNone(q) == Num(1)

\* 1 + ((quote.markupPercent || 0) / 100).
markupMultiplier(q) == Plus(Num(1), Over100(Num(OrZero(q.markupPercent))))

\* Mutant of AddSection: a section with a price override adds nothing to the
\* materials and labour totals.
AddSectionUnlessOverridden(acc, section, quoteLabourRate, defaultLabourRate) ==
  LET sectionMaterials == calculateSectionMaterials(section)
      sectionLabour ==
        calculateSectionLabour(section, quoteLabourRate, defaultLabourRate)
      sectionPrice ==
        calculateSectionPrice(section, sectionMaterials, sectionLabour)
  IN IF section.subsectionPrice # None
       THEN [acc EXCEPT !.sectionsTotal = Plus(@, sectionPrice)]
       ELSE [materialsTotal |-> Plus(acc.materialsTotal, sectionMaterials),
             labourTotal |-> Plus(acc.labourTotal, sectionLabour),
             sectionsTotal |-> Plus(acc.sectionsTotal, sectionPrice)]

\* One pass of sections.forEach: the three running totals after section.
AddSection(acc, section, quoteLabourRate, defaultLabourRate) ==
  LET sectionMaterials == calculateSectionMaterials(section)
      sectionLabour ==
        calculateSectionLabour(section, quoteLabourRate, defaultLabourRate)
      sectionPrice ==
        calculateSectionPrice(section, sectionMaterials, sectionLabour)
  IN [materialsTotal |-> Plus(acc.materialsTotal, sectionMaterials),
      labourTotal |-> Plus(acc.labourTotal, sectionLabour),
      sectionsTotal |-> Plus(acc.sectionsTotal, sectionPrice)]

RECURSIVE AddSections(_, _, _, _, _)
AddSections(acc, sections, k, quoteLabourRate, defaultLabourRate) ==
  IF k > Len(sections) THEN acc
  ELSE AddSections(
         AddSection(acc, sections[k], quoteLabourRate, defaultLabourRate),
         sections, k + 1, quoteLabourRate, defaultLabourRate)

calculateQuoteTotals(q, opts, display) ==
  LET sections == Elems(q.sections)
      sums == AddSections(
                [materialsTotal |-> Num(0), labourTotal |-> Num(0),
                 sectionsTotal |-> Num(0)],
                sections, 1, q.labourRate, opts.defaultLabourRate)
      clientSubtotal == Times(sums.sectionsTotal, markupMultiplier(q))
      discountAmount ==
        calculateDiscount(clientSubtotal, q.discountType, q.discountValue)
      afterDiscount == Minus(clientSubtotal, discountAmount)
      taxAmount ==
        calculateVat(afterDiscount, q.taxPercent,
                     [enableVat |-> opts.enableVat, showVat |-> display.showVat])
      cisAmount ==
        calculateCis(sums.labourTotal, q.cisPercent,
                     [enableCis |-> opts.enableCis, showCis |-> display.showCis])
      grandTotal == Minus(Plus(afterDiscount, taxAmount), cisAmount)
  IN [materialsTotal |-> sums.materialsTotal,
      labourTotal |-> sums.labourTotal,
      sectionsTotal |-> sums.sectionsTotal,
      clientSubtotal |-> clientSubtotal,
      discountAmount |-> discountAmount,
      afterDiscount |-> afterDiscount,
      taxAmount |-> taxAmount,
      cisAmount |-> cisAmount,
      grandTotal |-> grandTotal]

\* ------------------------------------------------------- calculator inputs
\* Largest number of sections of a document.
MaxSections == 2

\* The labour inputs of a section: priced by hours at the document's rate,
\* by a direct cost (with an empty item list, hours and a rate of its own
\* beside it), or by itemised labour (with a cost and hours beside it).
LabourParts ==
  { [labourItems |-> None, labourHours |-> Some(4),
     labourRate |-> None, labourCost |-> None],
    [labourItems |-> Some(<<>>), labourHours |-> Some(3),
     labourRate |-> Some(75), labourCost |-> Some(100)],
    [labourItems |-> Some(<<[hours |-> 5, rate |-> None],
                            [hours |-> 2, rate |-> Some(40)]>>),
     labourHours |-> Some(1), labourRate |-> None, labourCost |-> Some(100)] }

\* The materials and the price override of a section: a priced line and a
\* heading, no override; two lines, one without a price, overridden to 0; no
\* lines, overridden to 500.
PricingParts ==
  { [items |-> Some(<<[totalPrice |-> Some(100), isHeading |-> FALSE],
                      [totalPrice |-> Some(999), isHeading |-> TRUE]>>),
     subsectionPrice |-> None],
    [items |-> Some(<<[totalPrice |-> Some(200), isHeading |-> FALSE],
                      [totalPrice |-> None, isHeading |-> FALSE]>>),
     subsectionPrice |-> Some(0)],
    [items |-> None, subsectionPrice |-> Some(500)] }

Section(l, p) ==
  [items |-> p.items, subsectionPrice |-> p.subsectionPrice,
   labourItems |-> l.labourItems, labourHours |-> l.labourHours,
   labourRate |-> l.labourRate, labourCost |-> l.labourCost]

Sections == {Section(l, p) : l \in LabourParts, p \in PricingParts}

Documents == {None} \cup {Some(ss) : ss \in SeqsUpTo(Sections, MaxSections)}

DiscountTypes == {"undefined", "percentage", "fixed"}

\* The database and the page while the calculator is at work.
Elsewhere ==
  /\ bank_transactions = InitTransactions
  /\ expenses = InitExpenses
  /\ quotes = InitQuotes
  /\ reconciliation_links = EmptyBag
  /\ pc = "idle"
  /\ request = NoRequest
  /\ result = "none"
  /\ pre = NoDB
  /\ chain = NoChain
  /\ sessions = [s \in Sessions |-> IdleSession]

Database == <<bank_transactions, expenses, quotes, reconciliation_links,
              pc, request, result, pre, chain, sessions>>

\* Documents of up to MaxSections sections, under every setting of the four
\* toggles.
InitTotals ==
  /\ Elsewhere
  /\ store = NoStore
  /\ page = NoPage
  /\ tasks = NoTasks
  /\ NoHooks
  /\ quote \in [sections : Documents,
                labourRate : {Some(50)},
                markupPercent : {None, Some(10)},
                discountType : {"percentage", "fixed"},
                discountValue : {None, Some(10)},
                taxPercent : {None, Some(20)},
                cisPercent : {Some(20)}]
  /\ options \in [enableVat : BOOLEAN, enableCis : BOOLEAN,
                  defaultLabourRate : {65}]
  /\ displayOptions \in [showVat : BOOLEAN, showCis : BOOLEAN]
  /\ totals = NoTotals
  /\ partPayment = NoPartPayment

\* One section with every combination of labour inputs, in a document with
\* and without a labour rate of its own.
InitLabour ==
  /\ Elsewhere
  /\ store = NoStore
  /\ page = NoPage
  /\ tasks = NoTasks
  /\ NoHooks
  /\ \E s \in [items : {None},
               subsectionPrice : {None},
               labourItems : {None, Some(<<>>),
                              Some(<<[hours |-> 5, rate |-> None]>>),
                              Some(<<[hours |-> 5, rate |-> None],
                                     [hours |-> 2, rate |-> Some(40)]>>)},
               labourHours : {None, Some(0), Some(4)},
               labourRate : {None, Some(0), Some(75)},
               labourCost : {None, Some(0), Some(100)}],
        r \in {None, Some(50)} :
       quote = [NoQuote EXCEPT !.sections = Some(<<s>>), !.labourRate = r]
  /\ options = [enableVat |-> TRUE, enableCis |-> TRUE, defaultLabourRate |-> 65]
  /\ displayOptions = [showVat |-> TRUE, showCis |-> TRUE]
  /\ totals = NoTotals
  /\ partPayment = NoPartPayment

\* Documents with and without markup, under every setting of the two CIS
\* toggles.
InitCis ==
  /\ Elsewhere
  /\ store = NoStore
  /\ page = NoPage
  /\ tasks = NoTasks
  /\ NoHooks
  /\ quote \in [sections : Documents,
                labourRate : {Some(50)},
                markupPercent : {None, Some(10)},
                discountType : {"undefined"},
                discountValue : {None},
                taxPercent : {Some(20)},
                cisPercent : {Some(20)}]
  /\ options \in [enableVat : {TRUE}, enableCis : BOOLEAN,
                  defaultLabourRate : {65}]
  /\ displayOptions \in [showVat : {TRUE}, showCis : BOOLEAN]
  /\ totals = NoTotals
  /\ partPayment = NoPartPayment

\* One document of one section under every discount and every part payment.
InitAmounts ==
  /\ Elsewhere
  /\ store = NoStore
  /\ page = NoPage
  /\ tasks = NoTasks
  /\ NoHooks
  /\ \E s \in Sections :
       quote \in [sections : {Some(<<s>>)},
                  labourRate : {Some(50)},
                  markupPercent : {None},
                  discountType : DiscountTypes,
                  discountValue : {None, Some(0), Some(10)},
                  taxPercent : {Some(20)},
                  cisPercent : {Some(20)}]
  /\ options = [enableVat |-> TRUE, enableCis |-> TRUE, defaultLabourRate |-> 65]
  /\ displayOptions = [showVat |-> TRUE, showCis |-> TRUE]
  /\ totals = NoTotals
  /\ partPayment \in [enabled : {None, Some(FALSE), Some(TRUE)},
                      type : DiscountTypes,
                      value : {None, Some(0), Some(30)},
                      amount : {None}]

\* calculateQuoteTotals(quote, options, displayOptions).
CalculateQuoteTotals ==
  /\ quote # NoQuote
  /\ totals = NoTotals
  /\ totals' = Some(calculateQuoteTotals(quote, options, displayOptions))
  /\ UNCHANGED <<Hooks, Database, Matcher, quote, options, displayOptions, partPayment>>

\* calculatePartPayment(grandTotal, enabled, type, value) on the grand total
\* of the document.
CalculatePartPayment ==
  /\ totals # NoTotals
  /\ partPayment # NoPartPayment
  /\ partPayment.amount = None
  /\ partPayment' =
       [partPayment EXCEPT
          !.amount = Some(calculatePartPayment(totals[1].grandTotal,
                            partPayment.enabled, partPayment.type,
                            partPayment.value))]
  /\ UNCHANGED <<Hooks, Database, Matcher, quote, options, displayOptions, totals>>

NextTotals == CalculateQuoteTotals

NextAmounts == CalculateQuoteTotals \/ CalculatePartPayment

SpecTotals == InitTotals /\ [][NextTotals]_vars

SpecLabour == InitLabour /\ [][NextTotals]_vars

SpecCis == InitCis /\ [][NextTotals]_vars

SpecAmounts == InitAmounts /\ [][NextAmounts]_vars

\* -------------------------------------------------------- ReconciliationPage
\* Amounts are whole pence and dates whole hours; 1000 * 60 * 60 * 24
\* milliseconds are this many hours.
HoursPerDay == 24

\* Largest number of rows the three services return between them.
MaxRows == 3

Day(n) == n * HoursPerDay

\* Rows of bank_transactions as getAll() returns them: 120.00 out, 120.00 in
\* and a nil amount, dated day 40 or day 41, reconciled or not.
TransactionRows ==
  [amount : {0 - 12000, 12000}, transaction_date : {Day(40), Day(41)},
   is_reconciled : BOOLEAN]
  \cup {[amount |-> 0, transaction_date |-> Day(40), is_reconciled |-> FALSE]}

\* Rows of expenses: 120.00 (the amount paid) and 100.00 (120.00 with VAT),
\* dated 2 or 3, 5 or 6, 7 or 8 days from the transactions, not reconciled;
\* one of 120.00 reconciled already; one of 110.00.
ExpenseRows ==
  [amount : {12000, 10000}, expense_date : {Day(38), Day(46), Day(48)},
   is_reconciled : {FALSE}]
  \cup {[amount |-> 12000, expense_date |-> Day(38), is_reconciled |-> TRUE],
        [amount |-> 11000, expense_date |-> Day(38), is_reconciled |-> FALSE]}

\* Rows of quotes: paid invoices of 120.00 updated 7 or 8, 14 or 15, 30 or 31
\* days from the transactions and one updated an hour past 7 and 8 days; an
\* invoice that is sent and not paid; a paid quotation; a paid invoice of
\* 100.00.
QuoteRows ==
  [total : {12000}, updated_at : {Day(33), Day(55), Day(71), Day(48) + 1},
   status : {"paid"}, type : {"invoice"}]
  \cup {[total |-> 12000, updated_at |-> Day(33),
         status |-> "sent", type |-> "invoice"],
        [total |-> 12000, updated_at |-> Day(33),
         status |-> "paid", type |-> "quotation"],
        [total |-> 10000, updated_at |-> Day(33),
         status |-> "paid", type |-> "invoice"]}

\* The rows of a result set with their ids, which are distinct.
WithIds(rows) ==
  [k \in 1..Len(rows) |-> [id |-> k, row |-> rows[k]]]

\* Mutant of paidInvoices: every quote taken for a paid invoice.
allQuotes(quoteData) == quoteData

\* quoteData.filter(q => q.type === 'invoice' && q.status === 'paid').
paidInvoices(quoteData) ==
  LET IsPaidInvoice(q) == q.row.type = "invoice" /\ q.row.status = "paid"
  IN SelectSeq(quoteData, IsPaidInvoice)

\* Mutant of unreconciled: the reconciled rows kept.
reconciledOrNot(rows) == rows

\* rows.filter(r => !r.is_reconciled).
unreconciled(rows) ==
  LET Open(r) == ~r.row.is_reconciled IN SelectSeq(rows, Open)

\* Mutant of withinDays: the limit itself excluded.
withinDaysExclusive(date1, date2, days) ==
  Abs(date1 - date2) < days * HoursPerDay

\* Math.abs((date1 - date2) / (1000 * 60 * 60 * 24)) <= days.
withinDays(date1, date2, days) ==
  Abs(date1 - date2) <= days * HoursPerDay

\* Math.abs(a - b) < 0.01, for a and b in tenths of a penny.
near(a, b) == Abs(a - b) < 10

\* Math.abs(txAmount - exp.amount) < 0.01.
exactAmount(txAmount, exp) == near(10 * txAmount, 10 * exp.row.amount)

\* Math.abs(txAmount - exp.amount * 1.2) < 0.01.
amountWithVat(txAmount, exp) == near(10 * txAmount, 12 * exp.row.amount)

\* The filter callback of matchingExpenses.
expenseMatches(tx, exp) ==
  LET txAmount == Abs(tx.row.amount)
      close == withinDays(tx.row.transaction_date, exp.row.expense_date, 7)
  IN \/ exactAmount(txAmount, exp) /\ close
     \/ amountWithVat(txAmount, exp) /\ close

\* The filter callback of matchingInvoices.
invoiceMatches(tx, inv) ==
  /\ near(10 * tx.row.amount, 10 * inv.row.total)
  /\ withinDays(tx.row.transaction_date, inv.row.updated_at, 30)

\* Mutant of expenseConfidence: the amount not consulted.
expenseConfidenceByDate(tx, bestMatch) ==
  IF withinDays(tx.row.transaction_date, bestMatch.row.expense_date, 2)
    THEN "high"
  ELSE IF withinDays(tx.row.transaction_date, bestMatch.row.expense_date, 5)
    THEN "medium"
  ELSE "low"

\* exactAmount && daysDiff <= 2 ? 'high' : daysDiff <= 5 ? 'medium' : 'low'.
expenseConfidence(tx, bestMatch) ==
  IF /\ exactAmount(Abs(tx.row.amount), bestMatch)
     /\ withinDays(tx.row.transaction_date, bestMatch.row.expense_date, 2)
    THEN "high"
  ELSE IF withinDays(tx.row.transaction_date, bestMatch.row.expense_date, 5)
    THEN "medium"
  ELSE "low"

\* daysDiff <= 7 ? 'high' : daysDiff <= 14 ? 'medium' : 'low'.
invoiceConfidence(tx, bestMatch) ==
  IF withinDays(tx.row.transaction_date, bestMatch.row.updated_at, 7)
    THEN "high"
  ELSE IF withinDays(tx.row.transaction_date, bestMatch.row.updated_at, 14)
    THEN "medium"
  ELSE "low"

\* Mutant of bestMatch: the last of the matching candidates taken.
lastMatch(matching) == matching[Len(matching)]

\* const bestMatch = matchingExpenses[0] / matchingInvoices[0].
bestMatch(matching) == matching[1]

\* What the forEach callback pushes for transaction tx: nothing, or one
\* suggestion.
matchesOf(tx, unreconciledExp, invoices) ==
  LET ExpenseFits(exp) == expenseMatches(tx, exp)
      InvoiceFits(inv) == invoiceMatches(tx, inv)
      matchingExpenses == SelectSeq(unreconciledExp, ExpenseFits)
      matchingInvoices == SelectSeq(invoices, InvoiceFits)
      outgoing ==
        IF tx.row.amount < 0 /\ Len(matchingExpenses) > 0
          THEN <<[transaction |-> tx,
                  expense |-> Some(bestMatch(matchingExpenses)),
                  invoice |-> None,
                  confidence |-> expenseConfidence(tx, bestMatch(matchingExpenses)),
                  reason |-> IF exactAmount(Abs(tx.row.amount),
                                            bestMatch(matchingExpenses))
                               THEN "Exact amount match"
                               ELSE "Amount with VAT match"]>>
          ELSE <<>>
      incoming ==
        IF tx.row.amount > 0 /\ Len(matchingInvoices) > 0
          THEN <<[transaction |-> tx,
                  expense |-> None,
                  invoice |-> Some(bestMatch(matchingInvoices)),
                  confidence |-> invoiceConfidence(tx, bestMatch(matchingInvoices)),
                  reason |-> "Invoice"]>>
          ELSE <<>>
  IN outgoing \o incoming

\* unreconciledTx.forEach(...), from transaction k on.
RECURSIVE matchesFrom(_, _, _, _)
matchesFrom(unreconciledTx, unreconciledExp, invoices, k) ==
  IF k > Len(unreconciledTx) THEN <<>>
  ELSE matchesOf(unreconciledTx[k], unreconciledExp, invoices)
       \o matchesFrom(unreconciledTx, unreconciledExp, invoices, k + 1)

\* The matches the auto-match effect hands to setSuggestions.
autoMatch(p) ==
  matchesFrom(unreconciled(p.transactions), unreconciled(p.expenses),
              p.invoices, 1)

\* A loadData() call in flight.
LoadTask == [kind |-> "load"]

\* What the three services return: at most MaxRows rows in all; the page is
\* mounted and its first loadData() is in flight.
InitMatch ==
  /\ Elsewhere
  /\ quote = NoQuote
  /\ options = NoOptions
  /\ displayOptions = NoDisplayOptions
  /\ totals = NoTotals
  /\ partPayment = NoPartPayment
  /\ \E ts \in SeqsUpTo(TransactionRows, MaxRows) :
       \E es \in SeqsUpTo(ExpenseRows, MaxRows - Len(ts)) :
         \E qs \in SeqsUpTo(QuoteRows, MaxRows - Len(ts) - Len(es)) :
           store = [transactions |-> WithIds(ts), expenses |-> WithIds(es),
                    quotes |-> WithIds(qs)]
  /\ page = NoPage
  /\ tasks = <<LoadTask>>
  /\ NoHooks

\* seq without its element k.
Remove(seq, k) == SubSeq(seq, 1, k - 1) \o SubSeq(seq, k + 1, Len(seq))

\* The page with the three collections replaced by what the services return
\* now; the effect that depends on them is due.
Loaded(p) ==
  [p EXCEPT
     !.transactions = store.transactions,
     !.expenses = store.expenses,
     !.invoices = paidInvoices(store.quotes),
     !.loading = FALSE,
     !.effect = "due"]

\* loadData(), called on mount or by Refresh, the services answering.
LoadData ==
  /\ \E k \in 1..Len(tasks) :
       /\ tasks[k] = LoadTask
       /\ tasks' = Remove(tasks, k)
  /\ page' = Loaded(page)
  /\ UNCHANGED <<Hooks, Database, Calculator, store>>

\* loadData(), a service failing: the error is logged and the collections
\* stay as they were.
LoadFailed ==
  /\ \E k \in 1..Len(tasks) :
       /\ tasks[k] = LoadTask
       /\ tasks' = Remove(tasks, k)
  /\ page' = [page EXCEPT !.loading = FALSE]
  /\ UNCHANGED <<Hooks, Database, Calculator, store>>

\* The auto-match effect: it returns at once when there are no transactions,
\* and sets the suggestions otherwise.
AutoMatch ==
  /\ page.effect = "due"
  /\ page' = [page EXCEPT
                !.effect = "done",
                !.suggestions =
                  IF Len(page.transactions) = 0 THEN @ ELSE autoMatch(page)]
  /\ UNCHANGED <<Hooks, Database, Calculator, store, tasks>>

NextMatch == LoadData \/ LoadFailed \/ AutoMatch

SpecMatch == InitMatch /\ [][NextMatch]_vars

\* ------------------------------------------------- the page and its buttons
\* The most calls the page has in flight at once.
MaxInFlight == 2

\* handleAcceptMatch(suggestion) in flight: awaiting the reconcile service
\* ("reconcile") or the loadData() that follows it ("load").
AcceptTask(suggestion, phase) ==
  [kind |-> "accept", suggestion |-> suggestion, phase |-> phase]

\* The rows the services hold when the page is opened: payments of 120.00 out
\* and in, an expense of 120.00 two days before, a paid invoice of 120.00 a
\* week before, none reconciled.
PageTransactionRows ==
  [amount : {0 - 12000, 12000}, transaction_date : {Day(40)},
   is_reconciled : {FALSE}]

PageExpenseRows ==
  {[amount |-> 12000, expense_date |-> Day(38), is_reconciled |-> FALSE]}

PageQuoteRows ==
  {[total |-> 12000, updated_at |-> Day(33), status |-> "paid",
    type |-> "invoice"]}

InitPage ==
  /\ Elsewhere
  /\ quote = NoQuote
  /\ options = NoOptions
  /\ displayOptions = NoDisplayOptions
  /\ totals = NoTotals
  /\ partPayment = NoPartPayment
  /\ \E ts \in SeqsUpTo(PageTransactionRows, MaxRows) :
       \E es \in SeqsUpTo(PageExpenseRows, MaxRows - Len(ts)) :
         \E qs \in SeqsUpTo(PageQuoteRows, MaxRows - Len(ts) - Len(es)) :
           store = [transactions |-> WithIds(ts), expenses |-> WithIds(es),
                    quotes |-> WithIds(qs)]
  /\ page = NoPage
  /\ tasks = <<LoadTask>>
  /\ NoHooks

\* The buttons are rendered: the page shows the spinner alone while loading,
\* and the effects of a render run before the next click is handled.
Rendered == ~page.loading /\ page.effect = "done"

\* suggestions.slice(0, 5), the suggestions that have an Accept button.
shown(suggestions) ==
  SubSeq(suggestions, 1, IF Len(suggestions) < 5 THEN Len(suggestions) ELSE 5)

\* disabled={processing === suggestion.transaction.id}.
disabled(p, suggestion) == p.processing = Some(suggestion.transaction.id)

\* The Refresh button: loadData() begins.
Refresh ==
  /\ Rendered
  /\ Len(tasks) < MaxInFlight
  /\ page' = [page EXCEPT !.loading = TRUE]
  /\ tasks' = Append(tasks, LoadTask)
  /\ UNCHANGED <<Hooks, Database, Calculator, store>>

\* An Accept button that is not disabled: handleAcceptMatch(suggestion) as far
\* as its first await.
HandleAcceptMatch ==
  /\ Rendered
  /\ Len(tasks) < MaxInFlight
  /\ \E k \in 1..Len(shown(page.suggestions)) :
       LET suggestion == page.suggestions[k] IN
       /\ ~disabled(page, suggestion)
       /\ page' = [page EXCEPT !.processing = Some(suggestion.transaction.id)]
       /\ tasks' = Append(tasks, AcceptTask(suggestion, "reconcile"))
  /\ UNCHANGED <<Hooks, Database, Calculator, store>>

\* rows with the row of the given id marked reconciled.
markReconciled(rows, id) ==
  [k \in 1..Len(rows) |->
     IF rows[k].id = id THEN [id |-> id,
                              row |-> [rows[k].row EXCEPT !.is_reconciled = TRUE]]
     ELSE rows[k]]

\* bankTransactionsService.reconcileWithExpense(transactionId, expenseId): the
\* transaction and the expense are marked reconciled.
reconcileWithExpense(s, transactionId, expenseId) ==
  [s EXCEPT !.transactions = markReconciled(@, transactionId),
            !.expenses = markReconciled(@, expenseId)]

\* bankTransactionsService.reconcileWithInvoice(transactionId, invoiceId): the
\* transaction is marked reconciled (a quote carries no such mark).
reconcileWithInvoice(s, transactionId, invoiceId) ==
  [s EXCEPT !.transactions = markReconciled(@, transactionId)]

\* The reconcile service of an accept answers: handleAcceptMatch goes on to
\* await loadData(), which sets loading.
Reconciled ==
  /\ \E k \in 1..Len(tasks) :
       /\ tasks[k].kind = "accept"
       /\ tasks[k].phase = "reconcile"
       /\ LET suggestion == tasks[k].suggestion IN
          /\ store' =
               IF suggestion.expense # None
                 THEN reconcileWithExpense(store, suggestion.transaction.id,
                                           suggestion.expense[1].id)
               ELSE IF suggestion.invoice # None
                 THEN reconcileWithInvoice(store, suggestion.transaction.id,
                                           suggestion.invoice[1].id)
               ELSE store
          /\ tasks' = [tasks EXCEPT ![k] = AcceptTask(suggestion, "load")]
  /\ page' = [page EXCEPT !.loading = TRUE]
  /\ UNCHANGED <<Hooks, Database, Calculator>>

\* The reconcile service of an accept fails: the error is logged, and the
\* finally block clears processing.
ReconcileFailed ==
  /\ \E k \in 1..Len(tasks) :
       /\ tasks[k].kind = "accept"
       /\ tasks[k].phase = "reconcile"
       /\ tasks' = Remove(tasks, k)
  /\ page' = [page EXCEPT !.processing = None]
  /\ UNCHANGED <<Hooks, Database, Calculator, store>>

\* The loadData() of an accept answers, and the finally block of
\* handleAcceptMatch clears processing.
Reloaded ==
  /\ \E k \in 1..Len(tasks) :
       /\ tasks[k].kind = "accept"
       /\ tasks[k].phase = "load"
       /\ tasks' = Remove(tasks, k)
  /\ page' = [Loaded(page) EXCEPT !.processing = None]
  /\ UNCHANGED <<Hooks, Database, Calculator, store>>

\* The loadData() of an accept fails (it logs the error itself), and the
\* finally block of handleAcceptMatch clears processing.
ReloadFailed ==
  /\ \E k \in 1..Len(tasks) :
       /\ tasks[k].kind = "accept"
       /\ tasks[k].phase = "load"
       /\ tasks' = Remove(tasks, k)
  /\ page' = [page EXCEPT !.loading = FALSE, !.processing = None]
  /\ UNCHANGED <<Hooks, Database, Calculator, store>>

\* A bank transaction is deleted from the table elsewhere in the application.
DeleteTransaction ==
  /\ \E k \in 1..Len(store.transactions) :
       store' = [store EXCEPT !.transactions = Remove(@, k)]
  /\ UNCHANGED <<Hooks, Database, Calculator, page, tasks>>

NextPage ==
  \/ LoadData
  \/ LoadFailed
  \/ AutoMatch
  \/ Refresh
  \/ HandleAcceptMatch
  \/ Reconciled
  \/ ReconcileFailed
  \/ Reloaded
  \/ ReloadFailed
  \/ DeleteTransaction

SpecPage == InitPage /\ [][NextPage]_vars

\* ---------------------------------------------------------- useFeatureAccess
\* const TIER_ORDER = { free: 1, professional: 2, business: 3 }.
TIER_ORDER == [free |-> 1, professional |-> 2, business |-> 3]

\* FEATURE_TIER_MAP, for three of the gated features.
FEATURE_TIER_MAP ==
  [invoices |-> "free", expenses |-> "professional", bankImport |-> "business"]

\* new Date(), in hours.
Now == Day(100)

\* Math.ceil(a / b) for b > 0.
Ceil(a, b) == 0 - ((0 - a) \div b)

\* (value || fallback) of an optional string.
OrElse(value, fallback) == IF value = None THEN fallback ELSE value[1]

\* Math.max(0, Math.ceil((trialEnd - now) / (1000 * 60 * 60 * 24))), or null.
trialDaysRemaining(trialEnd) ==
  IF trialEnd = None THEN None
  ELSE LET days == Ceil(trialEnd[1] - Now, HoursPerDay)
       IN Some(IF days > 0 THEN days ELSE 0)

\* Mutant of TrialExpired: a trial never expires.
TrialNeverExpired(isTrialing, trialEnd) == FALSE

\* isTrialing && trialEnd && trialEnd < now.
TrialExpired(isTrialing, trialEnd) ==
  isTrialing /\ trialEnd # None /\ trialEnd[1] < Now

\* The useMemo callback of useFeatureAccess.
useFeatureAccess(s, f) ==
  LET currentTier == OrElse(s.subscriptionTier, "free")
      status == OrElse(s.subscriptionStatus, "trialing")
      trialEnd == s.trialEnd
      isTrialing == status = "trialing"
      baseResult ==
        [currentTier |-> currentTier, isTrialing |-> isTrialing,
         trialDaysRemaining |-> trialDaysRemaining(trialEnd),
         allowed |-> FALSE, reason |-> None, requiredTier |-> None]
      subscriptionEnd == s.subscriptionEnd
      requiredTier == FEATURE_TIER_MAP[f]
      hasRequiredTier == TIER_ORDER[currentTier] >= TIER_ORDER[requiredTier]
  IN IF status = "expired"
       THEN [baseResult EXCEPT !.reason = Some("subscription_expired")]
     ELSE IF /\ status = "cancelled"
             /\ subscriptionEnd # None
             /\ subscriptionEnd[1] < Now
       THEN [baseResult EXCEPT !.reason = Some("subscription_cancelled")]
     ELSE IF status = "past_due"
       THEN [baseResult EXCEPT !.reason = Some("past_due")]
     ELSE IF TrialExpired(isTrialing, trialEnd)
       THEN [baseResult EXCEPT !.reason = Some("trial_expired"),
                               !.trialDaysRemaining = Some(0)]
     ELSE IF ~hasRequiredTier
       THEN [baseResult EXCEPT !.reason = Some("tier_required"),
                               !.requiredTier = Some(requiredTier)]
     ELSE [baseResult EXCEPT !.allowed = TRUE]

\* isActive of useSubscription.
isActive(status, trialEnd) ==
  \/ status = "active"
  \/ status = "trialing" /\ trialEnd # None /\ trialEnd[1] > Now

\* The useMemo callback of useSubscription (the usage limits left out).
useSubscription(s) ==
  [tier |-> OrElse(s.subscriptionTier, "free"),
   status |-> OrElse(s.subscriptionStatus, "trialing"),
   trialEnd |-> s.trialEnd,
   subscriptionEnd |-> s.subscriptionEnd,
   isActive |-> isActive(OrElse(s.subscriptionStatus, "trialing"), s.trialEnd),
   trialDaysRemaining |-> trialDaysRemaining(s.trialEnd)]

Tiers == {"free", "professional", "business"}

Statuses == {"trialing", "active", "past_due", "cancelled", "expired"}

Features == DOMAIN FEATURE_TIER_MAP

\* A date that is not set, a day ago, or ten days from now.
EndDates == {None, Some(Now - Day(1)), Some(Now + Day(10))}

\* A trial end that is not set, a day ago, now, or an hour less than seven
\* days from now.
TrialEnds == {None, Some(Now - Day(1)), Some(Now), Some(Now + Day(7) - 1)}

\* The settings useData() returns and the feature asked about.
InitAccess ==
  /\ Elsewhere
  /\ quote = NoQuote
  /\ options = NoOptions
  /\ displayOptions = NoDisplayOptions
  /\ totals = NoTotals
  /\ partPayment = NoPartPayment
  /\ store = NoStore
  /\ page = NoPage
  /\ tasks = NoTasks
  /\ settings \in [subscriptionTier : {None} \cup {Some(t) : t \in Tiers},
                   subscriptionStatus : {None} \cup {Some(st) : st \in Statuses},
                   trialEnd : TrialEnds,
                   subscriptionEnd : EndDates,
                   subscriptionPeriodEnd : EndDates]
  /\ feature \in Features
  /\ access = None
  /\ subscription = None
  /\ navigation = NoNavigation
  /\ history = NoHistory

\* A component calls useFeatureAccess(feature).
UseFeatureAccess ==
  /\ access = None
  /\ access' = Some(useFeatureAccess(settings, feature))
  /\ UNCHANGED <<Database, Calculator, Matcher, settings, feature,
                 subscription, navigation, history>>

\* A component calls useSubscription().
UseSubscription ==
  /\ subscription = None
  /\ subscription' = Some(useSubscription(settings))
  /\ UNCHANGED <<Database, Calculator, Matcher, settings, feature, access,
                 navigation, history>>

NextAccess == UseFeatureAccess \/ UseSubscription

SpecAccess == InitAccess /\ [][NextAccess]_vars

\* -------------------------------------------------------- useHistoryNavigation
\* The most entries of window.history.
MaxEntries == 3

\* const DETAIL_TABS = ['view', 'jobpack_detail', 'quote_edit'].
DETAIL_TABS == {"view", "jobpack_detail", "quote_edit"}

\* The tabs and quotes the user moves between.
Tabs == {"home", "quotes", "view"}

QuoteIds == {None, Some("q1")}

\* const state = { tab: activeTab, projectId: activeProjectId,
\*                 quoteId: viewingQuoteId }.
NavigationState(n) ==
  [tab |-> n.activeTab, projectId |-> n.activeProjectId,
   quoteId |-> n.viewingQuoteId]

\* const homeState = { tab: 'home', projectId: null, quoteId: null }.
homeState == [tab |-> "home", projectId |-> None, quoteId |-> None]

\* JSON.stringify(state): the three values in the order of their keys.
stateKey(state) == <<state.tab, state.projectId, state.quoteId>>

\* window.history.pushState(state): the entries after the current one are
\* dropped and the new entry becomes the current one.
pushState(h, state) ==
  [entries |-> Append(SubSeq(h.entries, 1, h.index), Some(state)),
   index |-> h.index + 1,
   call |-> "pushState"]

\* window.history.replaceState(state).
replaceState(h, state) ==
  [h EXCEPT !.entries[h.index] = Some(state), !.call = "replaceState"]

\* The application on its home tab, both effects of the hook run once: the
\* current entry holds the home state; the document may have an earlier entry
\* that holds no state.
InitHistory ==
  /\ Elsewhere
  /\ quote = NoQuote
  /\ options = NoOptions
  /\ displayOptions = NoDisplayOptions
  /\ totals = NoTotals
  /\ partPayment = NoPartPayment
  /\ store = NoStore
  /\ page = NoPage
  /\ tasks = NoTasks
  /\ settings = NoSettings
  /\ feature = "invoices"
  /\ access = None
  /\ subscription = None
  /\ navigation =
       [NoNavigation EXCEPT !.lastPushedState = Some(stateKey(homeState)),
                            !.cause = "mount"]
  /\ \E earlier \in {<<>>, <<None>>} :
       history = [entries |-> earlier \o <<Some(homeState)>>,
                  index |-> Len(earlier) + 1,
                  call |-> "replaceState"]

\* The user opens a tab, a project or a quote: the application sets its
\* state, and the push effect is due.
Navigate ==
  /\ navigation.effect = "done"
  /\ \E tab \in Tabs, quoteId \in QuoteIds :
       /\ <<tab, quoteId>> # <<navigation.activeTab, navigation.viewingQuoteId>>
       /\ tab \in DETAIL_TABS => history.index < MaxEntries
       /\ navigation' = [navigation EXCEPT !.activeTab = tab,
                                           !.viewingQuoteId = quoteId,
                                           !.effect = "due",
                                           !.cause = "user",
                                           !.before = navigation.lastPushedState]
  /\ history' = [history EXCEPT !.call = "none"]
  /\ UNCHANGED <<Database, Calculator, Matcher, settings, feature, access,
                 subscription>>

\* if (isHandlingPopState.current).
skipPopState(n) == n.isHandlingPopState

\* The push effect, run after a render in which the tab, the project or the
\* quote changed.
PushEffect ==
  /\ navigation.effect = "due"
  /\ LET state == NavigationState(navigation) IN
     IF skipPopState(navigation)
       THEN /\ navigation' = [navigation EXCEPT !.isHandlingPopState = FALSE,
                                                !.effect = "done"]
            /\ UNCHANGED history
     ELSE IF Some(stateKey(state)) = navigation.lastPushedState
       THEN /\ navigation' = [navigation EXCEPT !.effect = "done"]
            /\ UNCHANGED history
     ELSE /\ navigation' = [navigation EXCEPT
                              !.lastPushedState = Some(stateKey(state)),
                              !.effect = "done"]
          /\ history' = IF state.tab \in DETAIL_TABS
                          THEN pushState(history, state)
                          ELSE replaceState(history, state)
  /\ UNCHANGED <<Database, Calculator, Matcher, settings, feature, access,
                 subscription>>

\* The application state after handlePopState's three setters; the push
\* effect is due only if one of its dependencies changed.
Restored(n, state) ==
  [n EXCEPT !.isHandlingPopState = TRUE,
            !.activeTab = state.tab,
            !.activeProjectId = state.projectId,
            !.viewingQuoteId = state.quoteId,
            !.lastPushedState = Some(stateKey(state)),
            !.effect = IF state = NavigationState(n) THEN "done" ELSE "due",
            !.cause = "popstate"]

\* The browser's back or forward button: the entry moved to becomes the
\* current one and handlePopState runs with its state.
HandlePopState ==
  /\ navigation.effect = "done"
  /\ \E index \in {history.index - 1, history.index + 1} :
       /\ index \in 1..Len(history.entries)
       /\ LET moved == [history EXCEPT !.index = index, !.call = "none"]
              state == history.entries[index]
          IN IF state # None
               THEN /\ navigation' = Restored(navigation, state[1])
                    /\ history' = moved
               ELSE /\ navigation' = Restored(navigation, homeState)
                    /\ history' = pushState(moved, homeState)
  /\ UNCHANGED <<Database, Calculator, Matcher, settings, feature, access,
                 subscription>>

NextHistory == Navigate \/ PushEffect \/ HandlePopState

SpecHistory == InitHistory /\ [][NextHistory]_vars

\* ------------------------------------------------------------------ claims
\* The links of transaction tx as a bag, and how many of them there are.
LinkBagOf(links, tx) == [r \in LinksOf(links, tx) |-> links[r]]

LinkTotal(links, tx) ==
  IF LinksOf(links, tx) = {} THEN 0 ELSE BagCardinality(LinkBagOf(links, tx))

\* How many links join transaction tx to expense e and invoice i (one of the
\* two NULL).
LinkCount(links, tx, e, i) ==
  LET S == {r \in LinksOf(links, tx) : r.expense_id = e /\ r.invoice_id = i}
  IN IF S = {} THEN 0 ELSE BagCardinality([r \in S |-> links[r]])

HasDuplicate(seq) == \E j, k \in 1..Len(seq) : j # k /\ seq[j] = seq[k]

RECURSIVE SumAmounts(_)
SumAmounts(S) ==
  IF S = {} THEN 0
  ELSE LET r == CHOOSE x \in S : TRUE
       IN r.amount_matched[1] + SumAmounts(S \ {r})

\* The caller has made the call op and holds its outcome.
Called(op) == pc = "done" /\ request.op = op

\* C1: in every state reachable by reconcileMulti and unreconcile calls a bank
\* transaction is marked reconciled exactly when at least one link references
\* it.
C1_ReconciledIffLinked ==
  \A t \in DOMAIN bank_transactions :
    bank_transactions[t].is_reconciled <=> LinksOf(reconciliation_links, t) # {}

\* C2: a reconcileMulti that succeeds on an existing transaction leaves, for
\* that transaction, exactly one link per listed expense id and one per listed
\* invoice id and no other link; each link carries the full amount of its
\* expense or the full total of its invoice; the transaction is marked
\* reconciled.
C2_ReconcileMultiReplacesLinks ==
  (Called("reconcileMulti") /\ result = "ok") =>
    LET tx == request.transaction_id
        es == Elems(request.expense_ids)
        is == Elems(request.invoice_ids)
        mine == LinksOf(reconciliation_links, tx)
    IN /\ tx \in DOMAIN pre.bank_transactions
       /\ LinkTotal(reconciliation_links, tx) = Len(es) + Len(is)
       /\ \A e \in Range(es) :
            /\ LinkCount(reconciliation_links, tx, e, NULL) = 1
            /\ \A r \in mine : r.expense_id = e =>
                 r.amount_matched = Some(pre.expenses[e].amount)
       /\ \A i \in Range(is) :
            /\ LinkCount(reconciliation_links, tx, NULL, i) = 1
            /\ \A r \in mine : r.invoice_id = i =>
                 r.amount_matched = Some(pre.quotes[i].total)
       /\ \A r \in mine : r.expense_id \in Range(es) \/ r.invoice_id \in Range(is)
       /\ bank_transactions[tx].is_reconciled

\* C2 witness: a successful reconcileMulti with an expense and an invoice on a
\* transaction that had a link to another expense, the amounts matched not
\* summing to the magnitude of the transaction.
C2_Witness ==
  /\ Called("reconcileMulti") /\ result = "ok"
  /\ Len(Elems(request.expense_ids)) = 1
  /\ Len(Elems(request.invoice_ids)) = 1
  /\ \E r \in LinksOf(pre.links, request.transaction_id) :
       r.expense_id \notin Range(Elems(request.expense_ids)) /\ r.invoice_id = NULL
  /\ SumAmounts(LinksOf(reconciliation_links, request.transaction_id))
       # Abs(bank_transactions[request.transaction_id].amount)

\* C3: a reconcileMulti that fails leaves the links, the transactions, the
\* expenses and the invoices exactly as they were before the call.
C3_FailedReconcileChangesNothing ==
  (Called("reconcileMulti") /\ result # "ok") => DB = pre

\* C3 witness: a reconcileMulti that failed on its second expense id, after
\* it had deleted a link of the transaction and linked an unreconciled expense.
C3_Witness ==
  /\ Called("reconcileMulti")
  /\ result \in {"foreign_key_violation", "unique_violation", "check_violation"}
  /\ LinksOf(pre.links, request.transaction_id) # {}
  /\ Len(Elems(request.expense_ids)) = 2
  /\ Elems(request.expense_ids)[1] \in DOMAIN pre.expenses
  /\ ~pre.expenses[Elems(request.expense_ids)[1]].is_reconciled

\* C4: reconcileMulti on a transaction id that resolves to no bank transaction
\* fails with the not-found error and changes nothing.
C4_MissingTransactionNotFound ==
  (Called("reconcileMulti")
     /\ request.transaction_id \notin DOMAIN pre.bank_transactions) =>
    /\ result = "transaction_not_found"
    /\ DB = pre

\* C4 witness: the not-found failure of a call that lists an existing expense
\* and an existing invoice.
C4_Witness ==
  /\ Called("reconcileMulti")
  /\ request.transaction_id \notin DOMAIN pre.bank_transactions
  /\ Elems(request.expense_ids) = <<"e1">>
  /\ Elems(request.invoice_ids) = <<"i1">>
  /\ result = "transaction_not_found"

\* C5: a reconcileMulti repeated with the same arguments straight after the
\* first call leaves the tables as the first call left them.
C5_ReconcileMultiIdempotent ==
  (Called("reconcileMulti") /\ chain # NoChain /\ chain.request = request) =>
    DB = pre

\* C5 witness: the second of two successful identical calls, the first of
\* which changed the tables.
C5_Witness ==
  /\ Called("reconcileMulti") /\ chain # NoChain /\ chain.request = request
  /\ result = "ok" /\ chain.result = "ok"
  /\ chain.pre # pre
  /\ LinksOf(reconciliation_links, request.transaction_id) # {}

\* Transaction tx and expense e are both unreconciled and unlinked in db.
Unlinked(db, tx, e) ==
  /\ ~db.bank_transactions[tx].is_reconciled
  /\ LinksOf(db.links, tx) = {}
  /\ ~db.expenses[e].is_reconciled
  /\ db.expenses[e].reconciled_transaction_id = NULL
  /\ \A r \in Rows(db.links) : r.expense_id # e

\* The call before this one was a successful reconcileMulti(tx, [e], []) made
\* when tx and e were unreconciled and unlinked, and this one is
\* unreconcile(tx).
UndoneSingle(tx, e) ==
  /\ Called("unreconcile")
  /\ request.transaction_id = tx
  /\ chain.request.op = "reconcileMulti"
  /\ chain.request.transaction_id = tx
  /\ chain.request.expense_ids = Some(<<e>>)
  /\ chain.request.invoice_ids = Some(<<>>)
  /\ chain.result = "ok"
  /\ Unlinked(chain.pre, tx, e)

\* C6: reconcileMulti(tx, [e], []) on an unreconciled, unlinked tx and e,
\* followed by unreconcile(tx), ends with tx and e unreconciled, the
\* back-reference of e cleared and no link between them.
C6_UnreconcileUndoesSingleLink ==
  \A tx \in TransactionIds, e \in ExpenseIds :
    UndoneSingle(tx, e) =>
      /\ ~bank_transactions[tx].is_reconciled
      /\ ~expenses[e].is_reconciled
      /\ expenses[e].reconciled_transaction_id = NULL
      /\ LinkCount(reconciliation_links, tx, e, NULL) = 0

\* C6 witness: the state after such a pair of calls, the link having existed
\* in between.
C6_Witness ==
  /\ UndoneSingle("t1", "e1")
  /\ LinkCount(pre.links, "t1", "e1", NULL) = 1
  /\ pre.expenses["e1"].is_reconciled

\* C7: unreconcile(tx) deletes all links of tx, marks tx unreconciled, clears
\* the reconciled flag of every expense that had a link to tx when it was
\* called, and leaves every invoice as it was.
C7_UnreconcileClearsLinkedExpenses ==
  Called("unreconcile") =>
    LET tx == request.transaction_id IN
    /\ LinksOf(reconciliation_links, tx) = {}
    /\ tx \in DOMAIN bank_transactions => ~bank_transactions[tx].is_reconciled
    /\ \A r \in LinksOf(pre.links, tx) :
         r.expense_id # NULL => ~expenses[r.expense_id].is_reconciled
    /\ quotes = pre.quotes

\* The links a reconcileMulti call writes for its transaction.
ExpectedLinks(req) ==
  LET tx == req.transaction_id
      user == bank_transactions[tx].user_id
  IN {LinkRow(user, tx, e, NULL, Some(expenses[e].amount)) :
        e \in Range(Elems(req.expense_ids))}
     \cup
     {LinkRow(user, tx, NULL, i, Some(quotes[i].total)) :
        i \in Range(Elems(req.invoice_ids))}

\* Both sessions have ended a reconcileMulti on transaction tx, the two calls
\* ran at the same time, no third call ran with either, and one at least
\* committed.
RanConcurrently(tx) ==
  /\ \A s \in Sessions :
       /\ sessions[s].pc \in {"committed", "aborted"}
       /\ sessions[s].overlap = "one"
       /\ sessions[s].req.transaction_id = tx
  /\ \E s \in Sessions : sessions[s].pc = "committed"

\* C8: after two sessions ran reconcileMulti on the same transaction at the
\* same time, the links of the transaction are exactly those of one of the
\* two calls, never a union or a mixture.
C8_ConcurrentLastWriteWins ==
  \A tx \in TransactionIds :
    RanConcurrently(tx) =>
      \E s \in Sessions :
        /\ sessions[s].pc = "committed"
        /\ LinkBagOf(reconciliation_links, tx) = SetToBag(ExpectedLinks(sessions[s].req))

\* C9: every link has exactly one of expense_id and invoice_id set, no two
\* links join the same transaction and expense or the same transaction and
\* invoice, and a reconcileMulti whose arrays hold a NULL or list an id twice
\* fails and stores nothing.
C9_LinkConstraints ==
  /\ \A r \in Rows(reconciliation_links) :
       /\ (r.expense_id = NULL) # (r.invoice_id = NULL)
       /\ LinkCount(reconciliation_links, r.bank_transaction_id,
                    r.expense_id, r.invoice_id) = 1
  /\ (/\ Called("reconcileMulti")
      /\ \/ NULL \in Range(Elems(request.expense_ids))
         \/ NULL \in Range(Elems(request.invoice_ids))
         \/ HasDuplicate(Elems(request.expense_ids))
         \/ HasDuplicate(Elems(request.invoice_ids)))
     => (result # "ok" /\ reconciliation_links = pre.links)

\* C9 witness: a call that lists one existing expense twice for an existing
\* transaction, refused by the unique index.
C9_Witness ==
  /\ Called("reconcileMulti")
  /\ request.transaction_id \in DOMAIN bank_transactions
  /\ Elems(request.expense_ids) = <<"e1", "e1">>
  /\ result = "unique_violation"

\* C10: unreconcile on a transaction id that is in no row of bank_transactions
\* fails with a not-found condition and changes nothing.
C10_UnreconcileMissingNotFound ==
  (Called("unreconcile")
     /\ request.transaction_id \notin DOMAIN pre.bank_transactions) =>
    /\ result = "transaction_not_found"
    /\ DB = pre

\* ------------------------------------------------- claims on the calculator
\* The totals of the document in hand, once calculated.
Computed == totals # NoTotals

T == totals[1]

VatApplies == options.enableVat /\ displayOptions.showVat

CisApplies == options.enableCis /\ displayOptions.showCis

\* p percent of x.
PercentOf(x, p) == Frac(x.n * p, x.d * 100)

\* C11: calculateQuoteTotals composes its result in this order: clientSubtotal
\* is sectionsTotal x (1 + markupPercent / 100), a missing markup counting as
\* 0; discountAmount is computed on clientSubtotal; afterDiscount is
\* clientSubtotal - discountAmount; taxAmount, when VAT applies, is
\* afterDiscount x taxPercent / 100; grandTotal is afterDiscount + taxAmount -
\* cisAmount.
C11_TotalsComposeInOrder ==
  Computed =>
    /\ T.clientSubtotal =
         PercentOf(T.sectionsTotal, 100 + OrZero(quote.markupPercent))
    /\ T.discountAmount =
         (IF quote.discountValue = None THEN Num(0)
          ELSE IF quote.discountType = "percentage"
            THEN PercentOf(T.clientSubtotal, quote.discountValue[1])
          ELSE Num(quote.discountValue[1]))
    /\ T.afterDiscount = Minus(T.clientSubtotal, T.discountAmount)
    /\ VatApplies =>
         T.taxAmount = PercentOf(T.afterDiscount, OrZero(quote.taxPercent))
    /\ Plus(T.grandTotal, T.cisAmount) = Plus(T.afterDiscount, T.taxAmount)

\* C11 witness: a document with sections worth 930, marked up by 10 percent
\* to 1023, with a discount of 10 percent (102.30) leaving 920.70, VAT of 20
\* percent on that (184.14) and a CIS deduction of 106 on labour of 530: the
\* grand total is 998.84.
C11_Witness ==
  /\ Computed
  /\ quote.markupPercent = Some(10)
  /\ quote.discountType = "percentage"
  /\ quote.discountValue = Some(10)
  /\ quote.taxPercent = Some(20)
  /\ VatApplies /\ CisApplies
  /\ T.sectionsTotal = Num(930)
  /\ T.clientSubtotal = Num(1023)
  /\ T.discountAmount = Frac(1023, 10)
  /\ T.afterDiscount = Frac(9207, 10)
  /\ T.taxAmount = Frac(18414, 100)
  /\ T.cisAmount = Num(106)
  /\ T.grandTotal = Frac(99884, 100)

\* The first of a list of optional values that is present.
RECURSIVE FirstPresent(_, _)
FirstPresent(opts, k) ==
  IF opts[k] # None \/ k = Len(opts) THEN opts[k][1]
  ELSE FirstPresent(opts, k + 1)

\* Hours x rate over the labour items numbered 1..k, an item without a rate of
\* its own taking the rate given.
RECURSIVE ItemisedLabour(_, _, _)
ItemisedLabour(labourItems, rate, k) ==
  IF k = 0 THEN 0
  ELSE ItemisedLabour(labourItems, rate, k - 1)
       + labourItems[k].hours *
           FirstPresent(<<labourItems[k].rate, Some(rate)>>, 1)

\* The only section of a one-section document.
OnlySection == quote.sections[1][1]

\* C12: calculateSectionLabour applies a strict precedence: when labourItems
\* is non-empty the result is the sum over the items of hours x (the item's
\* rate if present, else effectiveRate) and labourCost is ignored; otherwise
\* labourCost is the result whenever it is defined (0 included) and
\* labourHours is ignored; otherwise the result is (labourHours or 0) x
\* effectiveRate. effectiveRate is the first non-null of the section's
\* labourRate, the document's labourRate and the default rate.
C12_LabourPrecedence ==
  (Computed /\ Len(Elems(quote.sections)) = 1) =>
    LET s == OnlySection
        rate == FirstPresent(<<s.labourRate, quote.labourRate,
                               Some(options.defaultLabourRate)>>, 1)
    IN T.labourTotal =
         Num(IF s.labourItems \notin {None, Some(<<>>)}
               THEN ItemisedLabour(s.labourItems[1], rate,
                                   Len(s.labourItems[1]))
             ELSE IF s.labourCost # None THEN s.labourCost[1]
             ELSE IF s.labourHours = None THEN 0
             ELSE s.labourHours[1] * rate)

\* C12 witness: a section with two labour items (5 hours at the effective
\* rate, 2 hours at 40), a labour rate of 0 of its own, a labourCost of 100
\* and 4 labour hours, in a document whose rate is 50: its labour is
\* 5 x 0 + 2 x 40 = 80.
C12_Witness ==
  /\ Computed
  /\ Len(Elems(quote.sections)) = 1
  /\ Len(Elems(OnlySection.labourItems)) = 2
  /\ OnlySection.labourRate = Some(0)
  /\ OnlySection.labourCost = Some(100)
  /\ OnlySection.labourHours = Some(4)
  /\ quote.labourRate = Some(50)
  /\ T.labourTotal = Num(80)

\* The sum of F(section) over the sections numbered 1..k.
RECURSIVE SumOverSections(_, _, _)
SumOverSections(F(_), sections, k) ==
  IF k = 0 THEN Num(0)
  ELSE Plus(SumOverSections(F, sections, k - 1), F(sections[k]))

RawMaterials(s) == calculateSectionMaterials(s)

RawLabour(s) ==
  calculateSectionLabour(s, quote.labourRate, options.defaultLabourRate)

PriceOf(s) ==
  IF s.subsectionPrice # None THEN Num(s.subsectionPrice[1])
  ELSE Plus(RawMaterials(s), RawLabour(s))

\* C13: a section's price is its subsectionPrice whenever that is defined (0
\* included) and materials + labour otherwise; sectionsTotal is the sum of
\* these prices, while materialsTotal and labourTotal are the sums of every
\* section's raw materials and labour, overridden sections included.
C13_OverridePricesSection ==
  Computed =>
    LET ss == Elems(quote.sections) IN
    /\ T.sectionsTotal = SumOverSections(PriceOf, ss, Len(ss))
    /\ T.materialsTotal = SumOverSections(RawMaterials, ss, Len(ss))
    /\ T.labourTotal = SumOverSections(RawLabour, ss, Len(ss))

\* C13 witness: a document whose first section has materials of 200 and
\* labour of 100 and is overridden to 0, and whose second has materials of
\* 100 and labour of 200 and no override: sectionsTotal is 300, materialsTotal
\* 300 and labourTotal 300.
C13_Witness ==
  /\ Computed
  /\ Len(Elems(quote.sections)) = 2
  /\ quote.sections[1][1].subsectionPrice = Some(0)
  /\ RawMaterials(quote.sections[1][1]) = Num(200)
  /\ RawLabour(quote.sections[1][1]) = Num(100)
  /\ quote.sections[1][2].subsectionPrice = None
  /\ T.sectionsTotal = Num(300)
  /\ T.materialsTotal = Num(300)
  /\ T.labourTotal = Num(300)

\* C14: taxAmount is 0 whenever enableVat or showVat is false, and cisAmount
\* is 0 whenever enableCis or showCis is false, whatever the percents.
C14_TogglesGateVatAndCis ==
  Computed =>
    /\ ~VatApplies => T.taxAmount = Num(0)
    /\ ~CisApplies => T.cisAmount = Num(0)

\* C14 witness: VAT enabled but not shown, on 920.70 after discount at 20
\* percent, and CIS shown but not enabled, on labour of 530 at 20 percent:
\* neither is charged, and the grand total is 920.70.
C14_Witness ==
  /\ Computed
  /\ options.enableVat /\ ~displayOptions.showVat
  /\ ~options.enableCis /\ displayOptions.showCis
  /\ quote.taxPercent = Some(20)
  /\ quote.cisPercent = Some(20)
  /\ T.afterDiscount = Frac(9207, 10)
  /\ T.labourTotal = Num(530)
  /\ T.taxAmount = Num(0)
  /\ T.cisAmount = Num(0)
  /\ T.grandTotal = Frac(9207, 10)

\* The documents that differ from q at most in item prices, price overrides,
\* markup and discount: each section keeps its labour inputs and takes any
\* materials and override, and the document takes any markup and discount.
Repriced(q) ==
  LET ss == Elems(q.sections) IN
  {[q EXCEPT
      !.sections = Some([k \in 1..Len(ss) |-> Section(ss[k], ps[k])]),
      !.markupPercent = m,
      !.discountType = d[1],
      !.discountValue = d[2]] :
     ps \in [1..Len(ss) -> PricingParts],
     m \in {None, Some(10), Some(25)},
     d \in {<<"undefined", None>>, <<"percentage", Some(10)>>,
            <<"fixed", Some(50)>>}}

\* C15: when CIS applies, cisAmount is labourTotal x cisPercent / 100, and
\* two documents that differ only in item prices, markup, discount or
\* subsectionPrice overrides (same labour inputs, same cisPercent, same
\* toggles) have the same cisAmount.
C15_CisOnLabourOnly ==
  (Computed /\ CisApplies) =>
    /\ T.cisAmount = PercentOf(T.labourTotal, OrZero(quote.cisPercent))
    /\ \A q2 \in Repriced(quote) :
         calculateQuoteTotals(q2, options, displayOptions).cisAmount
           = T.cisAmount

\* C15 witness: a document with labour of 530 and CIS of 106 at 20 percent,
\* one section of which is overridden, and a second document with the same
\* labour inputs whose sections total and grand total are different.
C15_Witness ==
  /\ Computed
  /\ CisApplies
  /\ T.labourTotal = Num(530)
  /\ T.cisAmount = Num(106)
  /\ \E k \in 1..Len(Elems(quote.sections)) :
       quote.sections[1][k].subsectionPrice # None
  /\ \E q2 \in Repriced(quote) :
       LET t2 == calculateQuoteTotals(q2, options, displayOptions)
       IN /\ t2.sectionsTotal # T.sectionsTotal
          /\ t2.grandTotal # T.grandTotal
          /\ t2.cisAmount = Num(106)

\* The amount the shared rule gives on base: nothing when switched off or
\* when the value is unset or 0, the percentage of base when the type is
\* 'percentage', the value itself under any other type.
AmountRule(base, on, type, value) ==
  IF ~on \/ value = None \/ value = Some(0) THEN Num(0)
  ELSE IF type = "percentage" THEN PercentOf(base, value[1])
  ELSE Num(value[1])

\* C16: calculateDiscount and calculatePartPayment follow one rule: 0 when the
\* value is zero or unset (for the part payment also when it is not enabled);
\* base x value / 100 when the type is 'percentage', the base being
\* clientSubtotal for the discount and grandTotal for the part payment; the
\* value verbatim for any other type, undefined included.
C16_DiscountAndPartPaymentRule ==
  /\ Computed =>
       T.discountAmount =
         AmountRule(T.clientSubtotal, TRUE,
                    quote.discountType, quote.discountValue)
  /\ partPayment.amount # None =>
       partPayment.amount[1] =
         AmountRule(T.grandTotal, partPayment.enabled = Some(TRUE),
                    partPayment.type, partPayment.value)

\* C16 witness: a discount of value 10 and a part payment of value 30, both
\* with no type given and the part payment enabled: the discount is 10 and the
\* part payment 30, whatever the subtotal and the grand total.
C16_Witness ==
  /\ Computed
  /\ quote.discountType = "undefined"
  /\ quote.discountValue = Some(10)
  /\ T.discountAmount = Num(10)
  /\ T.clientSubtotal # Num(100)
  /\ partPayment.enabled = Some(TRUE)
  /\ partPayment.type = "undefined"
  /\ partPayment.value = Some(30)
  /\ partPayment.amount = Some(Num(30))

\* ---------------------------------------------------- claims on the matcher
\* The suggestion pass has run on the collections that are loaded.
Suggested == page.effect = "done" /\ Len(page.transactions) > 0

\* The suggestions made for transaction t.
SuggestionsFor(t) ==
  {s \in Range(page.suggestions) : s.transaction = t}

\* The distance between two dates is at most days days.
DaysApartAtMost(date1, date2, days) ==
  /\ date1 - date2 <= days * HoursPerDay
  /\ date2 - date1 <= days * HoursPerDay

\* Expense e is the amount of transaction t to within 0.01, or is that amount
\* once 20 percent is added to it, to within 0.01 (amounts in pence).
ExactMatch(t, e) == Abs(Abs(t.row.amount) - e.row.amount) < 1

VatMatch(t, e) == Abs(10 * Abs(t.row.amount) - 12 * e.row.amount) < 10

\* C17: for an unreconciled transaction t with amount < 0 the suggestion pass
\* proposes an expense exactly when some unreconciled expense e lies within 7
\* days of t (absolute difference of dates) and either ||t.amount| - e.amount|
\* < 0.01 or ||t.amount| - 1.2 x e.amount| < 0.01; reconciled expenses are
\* never proposed, and invoices are never proposed for an outgoing
\* transaction.
C17_OutgoingMatchesExpenses ==
  Suggested =>
    /\ \A t \in Range(page.transactions) :
         (~t.row.is_reconciled /\ t.row.amount < 0) =>
           /\ (\E s \in SuggestionsFor(t) : s.expense # None)
                <=> (\E e \in Range(page.expenses) :
                       /\ ~e.row.is_reconciled
                       /\ DaysApartAtMost(t.row.transaction_date,
                                          e.row.expense_date, 7)
                       /\ (ExactMatch(t, e) \/ VatMatch(t, e)))
           /\ \A s \in SuggestionsFor(t) : s.invoice = None
    /\ \A s \in Range(page.suggestions) :
         s.expense # None => ~s.expense[1].row.is_reconciled

\* C17 witness: 120.00 paid out on day 41; the first expense, of 120.00 three
\* days before, is reconciled already; the second, of 100.00 seven days
\* after, is not. The second is proposed.
C17_Witness ==
  /\ Suggested
  /\ Len(page.transactions) = 1
  /\ page.transactions[1].row =
       [amount |-> 0 - 12000, transaction_date |-> Day(41),
        is_reconciled |-> FALSE]
  /\ Len(page.expenses) = 2
  /\ page.expenses[1].row =
       [amount |-> 12000, expense_date |-> Day(38), is_reconciled |-> TRUE]
  /\ page.expenses[2].row =
       [amount |-> 10000, expense_date |-> Day(48), is_reconciled |-> FALSE]
  /\ Len(page.suggestions) = 1
  /\ page.suggestions[1].expense = Some(page.expenses[2])

\* The suggestions that propose an expense.
ExpenseSuggestions == {s \in Range(page.suggestions) : s.expense # None}

\* The distance in time between the transaction and the expense of
\* suggestion s is at most days days.
ExpenseWithin(s, days) ==
  DaysApartAtMost(s.transaction.row.transaction_date,
                  s.expense[1].row.expense_date, days)

\* C18: the confidence of a suggested expense match is 'high' exactly when the
\* amount match is exact (within 0.01) and the date distance is at most 2
\* days; otherwise 'medium' when the date distance is at most 5 days;
\* otherwise 'low'.
C18_ExpenseConfidence ==
  Suggested =>
    \A s \in ExpenseSuggestions :
      s.confidence =
        (IF ExactMatch(s.transaction, s.expense[1]) /\ ExpenseWithin(s, 2)
           THEN "high"
         ELSE IF ExpenseWithin(s, 5) THEN "medium"
         ELSE "low")

\* C18 witness: one expense of 120.00 of day 38 proposed for two payments of
\* 120.00, with 'high' for the one of day 40 (exact, 2 days) and with
\* 'medium' for the one of day 41 (exact, 3 days).
C18_Witness ==
  /\ Suggested
  /\ \E s \in ExpenseSuggestions :
       /\ ExactMatch(s.transaction, s.expense[1])
       /\ ExpenseWithin(s, 2) /\ ~ExpenseWithin(s, 1)
       /\ s.confidence = "high"
  /\ \E s \in ExpenseSuggestions :
       /\ ExactMatch(s.transaction, s.expense[1])
       /\ ExpenseWithin(s, 3) /\ ~ExpenseWithin(s, 2)
       /\ s.confidence = "medium"

\* Suggestion s qualifies through the VAT-grossed rule and not through the
\* exact amount.
VatOnly(s) ==
  /\ VatMatch(s.transaction, s.expense[1])
  /\ ~ExactMatch(s.transaction, s.expense[1])

\* C19 as stated: every suggested expense match that qualifies only through
\* the VAT-grossed rule and whose date distance is beyond 2 days is labelled
\* 'low'; 'low' is otherwise given only to exact matches 6 to 7 days apart.
C19_VatBeyondTwoDaysIsLow ==
  Suggested =>
    \A s \in ExpenseSuggestions :
      /\ (VatOnly(s) /\ ~ExpenseWithin(s, 2)) => s.confidence = "low"
      /\ s.confidence = "low" =>
           \/ VatOnly(s) /\ ~ExpenseWithin(s, 2)
           \/ /\ ExactMatch(s.transaction, s.expense[1])
              /\ ~ExpenseWithin(s, 5) /\ ExpenseWithin(s, 7)

\* C19 amended: a suggested expense match that qualifies only through the
\* VAT-grossed rule is never 'high': it is labelled 'medium' when its date
\* distance is at most 5 days and 'low' beyond; 'low' is given only to
\* matches, exact or VAT-grossed, that are more than 5 and at most 7 days
\* apart.
C19_VatMediumUpToFiveDays ==
  Suggested =>
    \A s \in ExpenseSuggestions :
      /\ VatOnly(s) =>
           s.confidence = (IF ExpenseWithin(s, 5) THEN "medium" ELSE "low")
      /\ s.confidence = "low" =>
           ~ExpenseWithin(s, 5) /\ ExpenseWithin(s, 7)

\* C19 witness: 120.00 paid out on day 41 against an expense of 100.00 of day
\* 38, a VAT-grossed match 3 days apart, labelled 'medium'; and 120.00 paid
\* out on day 40 against the same expense, 2 days apart, 'medium' as well.
C19_Witness ==
  /\ Suggested
  /\ \E s \in ExpenseSuggestions :
       /\ VatOnly(s)
       /\ ExpenseWithin(s, 3) /\ ~ExpenseWithin(s, 2)
       /\ s.confidence = "medium"
       /\ s.reason = "Amount with VAT match"
  /\ \E s \in ExpenseSuggestions :
       /\ VatOnly(s)
       /\ ExpenseWithin(s, 2)
       /\ s.confidence = "medium"

\* The suggestions that propose an invoice.
InvoiceSuggestions == {s \in Range(page.suggestions) : s.invoice # None}

\* The distance in time between the transaction and the invoice of
\* suggestion s is at most days days.
InvoiceWithin(s, days) ==
  DaysApartAtMost(s.transaction.row.transaction_date,
                  s.invoice[1].row.updated_at, days)

\* C20: for an unreconciled transaction t with amount > 0 the suggestion pass
\* proposes an invoice exactly when some paid invoice has |t.amount -
\* invoice.total| < 0.01 and its updated_at lies within 30 days of t; the
\* confidence is 'high' when the date distance is at most 7 days, 'medium'
\* when at most 14 days, and 'low' otherwise; expenses are never proposed for
\* an incoming transaction.
C20_IncomingMatchesPaidInvoices ==
  Suggested =>
    /\ \A t \in Range(page.transactions) :
         (~t.row.is_reconciled /\ t.row.amount > 0) =>
           /\ (\E s \in SuggestionsFor(t) : s.invoice # None)
                <=> (\E q \in Range(store.quotes) :
                       /\ q.row.type = "invoice" /\ q.row.status = "paid"
                       /\ Abs(t.row.amount - q.row.total) < 1
                       /\ DaysApartAtMost(t.row.transaction_date,
                                          q.row.updated_at, 30))
           /\ \A s \in SuggestionsFor(t) : s.expense = None
    /\ \A s \in InvoiceSuggestions :
         /\ s.invoice[1].row.type = "invoice"
         /\ s.invoice[1].row.status = "paid"
         /\ s.confidence =
              (IF InvoiceWithin(s, 7) THEN "high"
               ELSE IF InvoiceWithin(s, 14) THEN "medium"
               ELSE "low")

\* C20 witness: 120.00 received on day 41; the first quote returned is an
\* invoice of 120.00 of day 33 that is sent and not paid, the second a paid
\* invoice of 120.00 updated 7 days and one hour after the receipt. The second
\* is proposed, with 'medium'.
C20_Witness ==
  /\ Suggested
  /\ Len(page.transactions) = 1
  /\ page.transactions[1].row =
       [amount |-> 12000, transaction_date |-> Day(41),
        is_reconciled |-> FALSE]
  /\ Len(store.quotes) = 2
  /\ store.quotes[1].row =
       [total |-> 12000, updated_at |-> Day(33),
        status |-> "sent", type |-> "invoice"]
  /\ store.quotes[2].row =
       [total |-> 12000, updated_at |-> Day(48) + 1,
        status |-> "paid", type |-> "invoice"]
  /\ Len(page.suggestions) = 1
  /\ page.suggestions[1].invoice = Some(store.quotes[2])
  /\ page.suggestions[1].confidence = "medium"

\* Where in the suggestion list transaction t appears.
PlacesOf(t) ==
  {k \in 1..Len(page.suggestions) : page.suggestions[k].transaction = t}

\* Expense e, and invoice q, qualifies for transaction t.
ExpenseQualifies(t, e) ==
  /\ t.row.amount < 0
  /\ ~e.row.is_reconciled
  /\ DaysApartAtMost(t.row.transaction_date, e.row.expense_date, 7)
  /\ (ExactMatch(t, e) \/ VatMatch(t, e))

InvoiceQualifies(t, q) ==
  /\ t.row.amount > 0
  /\ Abs(t.row.amount - q.row.total) < 1
  /\ DaysApartAtMost(t.row.transaction_date, q.row.updated_at, 30)

\* c is the first element of rows for which Fits holds.
IsFirst(c, rows, Fits(_)) ==
  \E k \in 1..Len(rows) :
    /\ rows[k] = c
    /\ Fits(rows[k])
    /\ \A j \in 1..(k - 1) : ~Fits(rows[j])

\* C21: in any suggestion pass every transaction appears in at most one
\* suggestion, that suggestion carries exactly one of expense / invoice, and
\* the chosen candidate is the first qualifying one in the collection's
\* iteration order; reconciled transactions, zero-amount transactions and
\* transactions with no qualifying candidate appear in none.
C21_OneSuggestionFirstCandidate ==
  Suggested =>
    /\ \A t \in Range(page.transactions) :
         /\ Cardinality(PlacesOf(t)) <= 1
         /\ (\/ t.row.is_reconciled
             \/ t.row.amount = 0
             \/ /\ \A e \in Range(page.expenses) : ~ExpenseQualifies(t, e)
                /\ \A q \in Range(page.invoices) : ~InvoiceQualifies(t, q))
              => PlacesOf(t) = {}
    /\ \A s \in Range(page.suggestions) :
         LET ExpenseFits(e) == ExpenseQualifies(s.transaction, e)
             InvoiceFits(q) == InvoiceQualifies(s.transaction, q)
         IN /\ (s.expense = None) # (s.invoice = None)
            /\ s.expense # None =>
                 IsFirst(s.expense[1], page.expenses, ExpenseFits)
            /\ s.invoice # None =>
                 IsFirst(s.invoice[1], page.invoices, InvoiceFits)

\* C21 witness: 120.00 paid out on day 40 and two expenses of day 38, the
\* first of 100.00 (a VAT-grossed match) and the second of 120.00 (an exact
\* match): the first is proposed, in the only suggestion.
C21_Witness ==
  /\ Suggested
  /\ Len(page.transactions) = 1
  /\ page.transactions[1].row.amount = 0 - 12000
  /\ page.transactions[1].row.transaction_date = Day(40)
  /\ Len(page.expenses) = 2
  /\ page.expenses[1].row =
       [amount |-> 10000, expense_date |-> Day(38), is_reconciled |-> FALSE]
  /\ page.expenses[2].row =
       [amount |-> 12000, expense_date |-> Day(38), is_reconciled |-> FALSE]
  /\ Len(page.suggestions) = 1
  /\ page.suggestions[1].expense = Some(page.expenses[1])
  /\ page.suggestions[1].reason = "Amount with VAT match"

\* C28: within one suggestion pass no expense is proposed for more than one
\* transaction: two distinct unreconciled transactions never both receive a
\* suggestion naming the same expense.
C28_ExpenseProposedOnce ==
  Suggested =>
    \A j, k \in 1..Len(page.suggestions) :
      (/\ j # k
       /\ page.suggestions[j].expense # None
       /\ page.suggestions[k].expense # None)
        => page.suggestions[j].expense # page.suggestions[k].expense

\* ------------------------------------------------------ claims on the page
\* The suggestion pass has run on the collections the page holds now.
Recomputed == page.effect = "done"

\* Transaction t of the suggestion is in the collection and not reconciled.
OpenTransaction(t) ==
  \E k \in 1..Len(page.transactions) :
    page.transactions[k] = t /\ ~t.row.is_reconciled

\* C22: once the suggestion pass has run after a change of the loaded
\* collections (first load, refresh, reload after an accept), the suggestion
\* list is the matcher's result on the collections the page holds; it is
\* empty whenever the transactions collection is empty; and no suggestion is
\* for a transaction that is absent from, or reconciled in, that collection.
C22_SuggestionsFollowCollections ==
  Recomputed =>
    /\ page.suggestions = autoMatch(page)
    /\ Len(page.transactions) = 0 => page.suggestions = <<>>
    /\ \A k \in 1..Len(page.suggestions) :
         OpenTransaction(page.suggestions[k].transaction)

\* The accepts in flight for the transaction of the given id.
AcceptsInFlight(id) ==
  {k \in 1..Len(tasks) :
     tasks[k].kind = "accept" /\ tasks[k].suggestion.transaction.id = id}

AllAcceptsInFlight ==
  {k \in 1..Len(tasks) : tasks[k].kind = "accept"}

\* C27: while an accept for a transaction is in flight no second accept for
\* it has been started, its Accept button is disabled until the request
\* settles whatever the other accepts do, and processing is null once no
\* accept is in flight.
C27_AcceptInFlightIsExclusive ==
  /\ \A k \in AllAcceptsInFlight :
       /\ Cardinality(AcceptsInFlight(tasks[k].suggestion.transaction.id)) = 1
       /\ disabled(page, tasks[k].suggestion)
  /\ AllAcceptsInFlight = {} => page.processing = None

\* Part of C27 on its own: two accepts for one transaction are never in
\* flight together.
C27_NoSecondAccept ==
  \A k \in AllAcceptsInFlight :
    Cardinality(AcceptsInFlight(tasks[k].suggestion.transaction.id)) = 1

\* Part of C27 on its own: processing is null once no accept is in flight.
C27_ProcessingClears == AllAcceptsInFlight = {} => page.processing = None

\* ------------------------------------------- claims on the flags of expenses
\* The links that reference expense e.
LinksToExpense(e) == {r \in Rows(reconciliation_links) : r.expense_id = e}

\* C26: between calls of reconcile_transaction_multi and
\* unreconcile_transaction, an expense is flagged reconciled only if some link
\* references it, and its reconciled_transaction_id, when set, names a
\* transaction that has a link to it.
C26_FlaggedExpenseHasLink ==
  pc = "idle" =>
    \A e \in DOMAIN expenses :
      /\ expenses[e].is_reconciled => LinksToExpense(e) # {}
      /\ expenses[e].reconciled_transaction_id # NULL =>
           \E r \in LinksToExpense(e) :
             r.bank_transaction_id = expenses[e].reconciled_transaction_id

\* --------------------------------------------- claims on the sign of totals
\* x >= 0 and x <= y, of exact fractions.
NonNegative(x) == x.n >= 0

AtMost(x, y) == NonNegative(Minus(y, x))

\* The discount of the document is a percentage of at most 100, or a fixed
\* amount of at most clientSubtotal.
DiscountInRange ==
  IF quote.discountType = "percentage"
    THEN OrZero(quote.discountValue) <= 100
    ELSE AtMost(Num(OrZero(quote.discountValue)), T.clientSubtotal)

\* The markup, tax and CIS rates of the document are between 0 and 100.
RatesInRange ==
  \A rate \in {quote.markupPercent, quote.taxPercent, quote.cisPercent} :
    OrZero(rate) >= 0 /\ OrZero(rate) <= 100

\* C30: for a document with non-negative inputs, rates of at most 100 and a
\* fixed discount of at most clientSubtotal, calculateQuoteTotals returns
\* grandTotal >= 0 and afterDiscount >= 0.
C30_TotalsNonNegative ==
  (Computed /\ RatesInRange /\ DiscountInRange) =>
    /\ NonNegative(T.grandTotal)
    /\ NonNegative(T.afterDiscount)

\* Part of C30 on its own: afterDiscount >= 0 for those documents.
C30_AfterDiscountNonNegative ==
  (Computed /\ RatesInRange /\ DiscountInRange) =>
    NonNegative(T.afterDiscount)

\* ------------------------------------------------ claims on feature access
\* The subscription status and tier in force (a missing status counts as
\* trialing, a missing tier as free).
Status == OrElse(settings.subscriptionStatus, "trialing")

Tier == OrElse(settings.subscriptionTier, "free")

Asked == access # None

Access == access[1]

InThePast(date) == date # None /\ date[1] < Now

InTheFuture(date) == date # None /\ date[1] > Now

DeniedFor(reason) == ~Access.allowed /\ Access.reason = Some(reason)

\* free < professional < business.
RanksBelow(lower, higher) ==
  <<lower, higher>> \in {<<"free", "professional">>, <<"free", "business">>,
                         <<"professional", "business">>}

\* Access is denied for the tier, naming the tier the feature requires,
\* exactly when the tier in force ranks below it.
TierDecides ==
  (DeniedFor("tier_required")
     /\ Access.requiredTier = Some(FEATURE_TIER_MAP[feature]))
    <=> RanksBelow(Tier, FEATURE_TIER_MAP[feature])

\* The standing alone denies access: expired, past due, or a trial that has
\* ended.
StandingDenies ==
  \/ Status \in {"expired", "past_due"}
  \/ Status = "trialing" /\ InThePast(settings.trialEnd)

\* What C23 says of a standing that denies access.
StandingBeforeTier ==
  /\ Status = "expired" => DeniedFor("subscription_expired")
  /\ Status = "past_due" => DeniedFor("past_due")
  /\ (Status = "trialing" /\ InThePast(settings.trialEnd)) =>
       DeniedFor("trial_expired") /\ Access.trialDaysRemaining = Some(0)

\* C23 as stated: useFeatureAccess denies access with 'subscription_expired'
\* when the status is expired, 'past_due' when it is past_due, and
\* 'trial_expired' with trialDaysRemaining 0 when it is trialing and trialEnd
\* is in the past, whatever the tier and the feature; in every other case the
\* tier decides: 'tier_required' with the feature's requiredTier exactly when
\* the tier ranks below it.
C23_TierDecidesInEveryOtherCase ==
  Asked =>
    /\ StandingBeforeTier
    /\ ~StandingDenies => TierDecides

\* The status is cancelled and settings.subscriptionEnd is in the past.
CancelledAndEnded ==
  Status = "cancelled" /\ InThePast(settings.subscriptionEnd)

\* C23, amended: as above, but a cancelled subscription whose subscriptionEnd
\* is in the past is denied with 'subscription_cancelled' before the tier is
\* compared; the tier decides in the cases that remain.
C23_StandingCheckedBeforeTier ==
  Asked =>
    /\ StandingBeforeTier
    /\ (~StandingDenies /\ CancelledAndEnded) =>
         DeniedFor("subscription_cancelled")
    /\ (~StandingDenies /\ ~CancelledAndEnded) => TierDecides

\* A trial of the business tier that ended a day ago, asked about a free
\* feature: denied with 'trial_expired'.
C23_Witness ==
  /\ Asked
  /\ settings.subscriptionTier = Some("business")
  /\ settings.subscriptionStatus = Some("trialing")
  /\ settings.trialEnd = Some(Now - Day(1))
  /\ feature = "invoices"
  /\ DeniedFor("trial_expired")
  /\ Access.trialDaysRemaining = Some(0)

\* C24: with status active and subscriptionPeriodEnd in the past access is
\* denied with 'subscription_expired'; with status cancelled access is
\* allowed (the tier permitting) while subscriptionPeriodEnd is in the future
\* and denied with 'subscription_cancelled' once it has passed.
C24_PeriodEndEnforced ==
  Asked =>
    /\ (Status = "active" /\ InThePast(settings.subscriptionPeriodEnd)) =>
         DeniedFor("subscription_expired")
    /\ (Status = "cancelled" /\ InTheFuture(settings.subscriptionPeriodEnd)) =>
         Access.allowed \/ DeniedFor("tier_required")
    /\ (Status = "cancelled" /\ InThePast(settings.subscriptionPeriodEnd)) =>
         DeniedFor("subscription_cancelled")

\* Part of C24 on its own: the active status.
C24_ActivePastPeriodEndDenied ==
  (Asked /\ Status = "active" /\ InThePast(settings.subscriptionPeriodEnd)) =>
    DeniedFor("subscription_expired")

\* C25: useSubscription.isActive is true for status active; for trialing
\* exactly when trialEnd is set and in the future; for cancelled exactly when
\* subscriptionPeriodEnd is in the future; false for expired and past_due.
C25_IsActive ==
  subscription # None =>
    LET active == subscription[1].isActive IN
    /\ Status = "active" => active
    /\ Status = "trialing" => (active <=> InTheFuture(settings.trialEnd))
    /\ Status = "cancelled" =>
         (active <=> InTheFuture(settings.subscriptionPeriodEnd))
    /\ Status \in {"expired", "past_due"} => ~active

\* C25 without the cancelled status.
C25_IsActiveUnlessCancelled ==
  (subscription # None /\ Status # "cancelled") =>
    LET active == subscription[1].isActive IN
    /\ Status = "active" => active
    /\ Status = "trialing" => (active <=> InTheFuture(settings.trialEnd))
    /\ Status \in {"expired", "past_due"} => ~active


\* ---------------------------------------------- claims on history navigation
\* The push effect has run after a navigation of the user to a state that
\* differs from the last recorded one.
UserNavigated ==
  /\ navigation.cause = "user"
  /\ navigation.effect = "done"
  /\ navigation.before # Some(stateKey(NavigationState(navigation)))

\* C29: every navigation of the user to a state that differs from the last
\* recorded one is recorded in window.history, by pushState for a detail tab
\* and by replaceState for any other tab; this holds of the first navigation
\* after a handled popstate as well.
C29_UserNavigationRecorded ==
  UserNavigated =>
    /\ history.entries[history.index] = Some(NavigationState(navigation))
    /\ history.call = IF navigation.activeTab \in DETAIL_TABS
                        THEN "pushState" ELSE "replaceState"
====
